---- MODULE Spec2Model ----
(***************************************************************************)
(* Model of the incremental-font-transfer client logic:                    *)
(*   - selection of a compatible patch group                               *)
(*     (incremental-font-transfer/src/patch_group.rs),                     *)
(*   - application of the next patches of a group (same file),             *)
(*   - intersection of a subset definition with a format 1 patch map       *)
(*     (skrifa/src/patchmap.rs).                                           *)
(***************************************************************************)
EXTENDS Integers, Sequences, FiniteSets, TLC

(***************************************************************************)
(* Bounds of the model.                                                    *)
(***************************************************************************)
\* Longest candidate list handed to the selection.
MaxCands == 3
\* Largest entry index of a patch map.
MaxEntryIndex == 2

VARIABLES
    \* ---- selection (PatchGroup::select_next_patches_from_candidates) ----
    candidates,      \* Vec<PatchUri>: the candidate list, in input order
    ift_compat_id,   \* Option<CompatibilityId> of the IFT table
    iftx_compat_id,  \* Option<CompatibilityId> of the IFTX table
    patches,         \* PatchGroup.patches: Option<CompatibleGroup>
    pc,              \* position of the caller
    \* ---- application (PatchGroup::apply_next_patches) ----
    patch_data,          \* HashMap<String, UriStatus>, owned by the caller
    old_patch_data,      \* history: patch_data when the latest call was entered
    result,              \* what the latest call returned
    table_keyed_calls,   \* the calls of apply_table_keyed_patch in the latest call
    glyph_keyed_calls,   \* the calls of apply_glyph_keyed_patches in the latest call
    \* ---- intersection (skrifa patchmap::intersecting_patches) ----
    ift_font,          \* the tables of the font: ift, iftx, maxp and the charmap
    subset_codepoints, \* IntSet<u32>: the codepoints of the subset definition
    subset_features,   \* BTreeSet<Tag>: the feature tags of the subset
    overflow_checks,   \* whether the build panics on integer overflow
    intersect_result,  \* Ok or the error the call returned
    patch_uris,        \* Vec<PatchUri>: the candidates the call returned
    work,              \* history: the lookups, decodings and emissions, in order
    feature_walk       \* the locals of intersect_format1_feature_map, step by step

selectVars == <<candidates, ift_compat_id, iftx_compat_id>>
applyVars == <<patch_data, old_patch_data, result, table_keyed_calls, glyph_keyed_calls>>
intersectVars == <<ift_font, subset_codepoints, subset_features, overflow_checks,
                   intersect_result, patch_uris, work, feature_walk>>
vars == <<candidates, ift_compat_id, iftx_compat_id, patches, pc,
          patch_data, old_patch_data, result, table_keyed_calls, glyph_keyed_calls,
          ift_font, subset_codepoints, subset_features, overflow_checks,
          intersect_result, patch_uris, work, feature_walk>>

(***************************************************************************)
(* Option<T>: None is the empty tuple, Some(x) the one element tuple.      *)
(***************************************************************************)
None == <<>>
Some(x) == <<x>>

\* The locals of intersect_format1_feature_map before the function is entered.
\* at: where the control is; next_tag, next_record: the positions of the two
\* iterators; i, entry_count, tot_entry_count: the locals of the `for`;
\* last: the branch the latest step took; arithmetic: the exact values of the
\* u16 computations of the latest step.
NotEntered ==
    [at |-> "entry", next_tag |-> 1, next_record |-> 1,
     cumulative_entry_map_count |-> 0, largest_tag |-> None,
     i |-> 0, entry_count |-> 0, tot_entry_count |-> 0,
     entries |-> {}, result |-> "Ok", last |-> "none", arithmetic |-> {}]

\* The resolved URI strings: two strings, ordered as the integers are.  The
\* selection only compares URIs for equality and (in the BTreeMap) for order.
Uris == {1, 2}
\* The compatibility id values: the selection only compares them for equality
\* with the two current ids.
CompatIds == {1, 2}
OptCompatIds == {None} \cup {Some(c) : c \in CompatIds}

\* PatchEncoding as patch_group.rs matches on it.
TableKeyedFull == "TableKeyed{fully_invalidating:true}"
TableKeyedPartial == "TableKeyed{fully_invalidating:false}"
GlyphKeyed == "GlyphKeyed"
PatchEncodings == {TableKeyedFull, TableKeyedPartial, GlyphKeyed}

\* IftTableTag: Ift(CompatibilityId) | Iftx(CompatibilityId).
IftTableTags == [tag : {"IFT", "IFTX"}, cid : CompatIds]

\* PatchUri: the resolved uri string, the source table tag and the encoding.
PatchUris == [uri : Uris, source_table : IftTableTags, encoding : PatchEncodings]

uri_string(p) == p.uri
expected_compatibility_id(p) == p.source_table.cid
encoding(p) == p.encoding
source_table(p) == p.source_table

\* impl From<PatchUri> for PatchInfo
PatchInfoFrom(value) ==
    [uri |-> uri_string(value), source_table |-> source_table(value)]

(***************************************************************************)
(* BTreeMap<String, NoInvalidationPatch>: a function from the set of keys. *)
(***************************************************************************)
EmptyMap == <<>>

BTreeInsert_KeepFirst(m, k, v) ==
    [x \in (DOMAIN m) \cup {k} |-> IF x \in DOMAIN m THEN m[x] ELSE v]

BTreeInsert(m, k, v) ==
    [x \in (DOMAIN m) \cup {k} |-> IF x = k THEN v ELSE m[x]]

BTreeRemove(m, k) ==
    [x \in (DOMAIN m) \ {k} |-> m[x]]

Min(S) == CHOOSE x \in S : \A y \in S : x <= y

\* BTreeMap::keys(): the keys in ascending order.
RECURSIVE KeysAscending(_)
KeysAscending(S) ==
    IF S = {} THEN <<>>
    ELSE <<Min(S)>> \o KeysAscending(S \ {Min(S)})

BTreeKeys(m) == KeysAscending(DOMAIN m)

\* BTreeMap::values(): the values in ascending key order.
BTreeValues(m) ==
    LET ks == BTreeKeys(m) IN [i \in 1..Len(ks) |-> m[ks[i]]]

(***************************************************************************)
(* CompatibleGroup and ScopedGroup.                                        *)
(***************************************************************************)
Full(patch) == [kind |-> "Full", patch |-> patch]
Mixed(ift, iftx) == [kind |-> "Mixed", ift |-> ift, iftx |-> iftx]
PartialInvalidation(patch) == [kind |-> "PartialInvalidation", patch |-> patch]
NoInvalidation(map) == [kind |-> "NoInvalidation", map |-> map]

(***************************************************************************)
(* select_next_patches_from_candidates, step 1: sort the candidates into   *)
(* separate lists based on invalidation characteristics.                   *)
(***************************************************************************)
EmptyLists ==
    [full_invalidation |-> <<>>,
     partial_invalidation_ift |-> <<>>,
     partial_invalidation_iftx |-> <<>>,
     no_invalidation_ift |-> EmptyMap,
     no_invalidation_iftx |-> EmptyMap]

MatchesCompatId_Any(uri, compat_id) == compat_id # None

\* The compatibility test of one candidate against one scope's current id.
MatchesCompatId(uri, compat_id) ==
    Some(expected_compatibility_id(uri)) = compat_id

SortCandidate_IftxFirst(lists, uri, ift_id, iftx_id) ==
    CASE encoding(uri) = TableKeyedFull ->
            [lists EXCEPT !.full_invalidation = Append(@, PatchInfoFrom(uri))]
      [] encoding(uri) = TableKeyedPartial ->
            IF MatchesCompatId(uri, iftx_id)
            THEN [lists EXCEPT !.partial_invalidation_iftx =
                                   Append(@, PatchInfoFrom(uri))]
            ELSE IF MatchesCompatId(uri, ift_id)
            THEN [lists EXCEPT !.partial_invalidation_ift =
                                   Append(@, PatchInfoFrom(uri))]
            ELSE lists
      [] encoding(uri) = GlyphKeyed ->
            IF MatchesCompatId(uri, iftx_id)
            THEN [lists EXCEPT !.no_invalidation_iftx =
                                   BTreeInsert(@, uri_string(uri), PatchInfoFrom(uri))]
            ELSE IF MatchesCompatId(uri, ift_id)
            THEN [lists EXCEPT !.no_invalidation_ift =
                                   BTreeInsert(@, uri_string(uri), PatchInfoFrom(uri))]
            ELSE lists

\* The body of the loop over the candidates: one candidate is sorted.
SortCandidate(lists, uri, ift_id, iftx_id) ==
    CASE encoding(uri) = TableKeyedFull ->
            [lists EXCEPT !.full_invalidation = Append(@, PatchInfoFrom(uri))]
      [] encoding(uri) = TableKeyedPartial ->
            IF MatchesCompatId(uri, ift_id)
            THEN [lists EXCEPT !.partial_invalidation_ift =
                                   Append(@, PatchInfoFrom(uri))]
            ELSE IF MatchesCompatId(uri, iftx_id)
            THEN [lists EXCEPT !.partial_invalidation_iftx =
                                   Append(@, PatchInfoFrom(uri))]
            ELSE lists
      [] encoding(uri) = GlyphKeyed ->
            IF MatchesCompatId(uri, ift_id)
            THEN [lists EXCEPT !.no_invalidation_ift =
                                   BTreeInsert(@, uri_string(uri), PatchInfoFrom(uri))]
            ELSE IF MatchesCompatId(uri, iftx_id)
            THEN [lists EXCEPT !.no_invalidation_iftx =
                                   BTreeInsert(@, uri_string(uri), PatchInfoFrom(uri))]
            ELSE lists

RECURSIVE SortCandidates(_, _, _, _)
SortCandidates(lists, cands, ift_id, iftx_id) ==
    IF cands = <<>> THEN lists
    ELSE SortCandidates(SortCandidate(lists, Head(cands), ift_id, iftx_id),
                        Tail(cands), ift_id, iftx_id)

(***************************************************************************)
(* Step 2: selections in priority order.                                   *)
(***************************************************************************)
\* Iterator::next() on a list: the first element, if any.
First(list) == IF list = <<>> THEN None ELSE Some(list[1])

SelectFull_Last(full_invalidation) ==
    IF full_invalidation = <<>> THEN None
    ELSE Some(full_invalidation[Len(full_invalidation)])

\* full_invalidation.into_iter().next()
SelectFull(full_invalidation) == First(full_invalidation)

SelectIftPartial_SecondRunLast(partial_invalidation_ift) ==
    IF partial_invalidation_ift = <<>> THEN None
    ELSE IF pc = "selected"
    THEN Some(partial_invalidation_ift[Len(partial_invalidation_ift)])
    ELSE Some(partial_invalidation_ift[1])

\* partial_invalidation_ift.into_iter().next()
SelectIftPartial(partial_invalidation_ift) == First(partial_invalidation_ift)

IftxPartialAcceptable_Any(patch, ift_selected_uri) == TRUE

\* The closure given to find(): an IFTX partial patch is taken unless its
\* uri is the one already selected for IFT.
IftxPartialAcceptable(patch, ift_selected_uri) ==
    IF ift_selected_uri = None THEN TRUE
    ELSE ift_selected_uri[1] # patch.uri

SelectIftxPartial_Unfiltered(partial_invalidation_iftx, ift_selected_uri) ==
    First(partial_invalidation_iftx)

\* partial_invalidation_iftx.into_iter().find(...)
SelectIftxPartial(partial_invalidation_iftx, ift_selected_uri) ==
    First(SelectSeq(partial_invalidation_iftx,
                    LAMBDA patch : IftxPartialAcceptable(patch, ift_selected_uri)))

RemoveSelected_Kept(no_invalidation, own_selected_uri, other_selected_uri) ==
    no_invalidation

\* "URI's which have been selected for use above should not show up in
\* other selections": the map of a scope after the other scope's selection.
RemoveSelected(no_invalidation, own_selected_uri, other_selected_uri) ==
    IF other_selected_uri # None /\ own_selected_uri = None
    THEN BTreeRemove(no_invalidation, other_selected_uri[1])
    ELSE no_invalidation

RemoveAllIn_Kept(no_invalidation_iftx, no_invalidation_ift) == no_invalidation_iftx

\* "remove all URIs in ift from iftx"
RemoveAllIn(no_invalidation_iftx, no_invalidation_ift) ==
    [x \in (DOMAIN no_invalidation_iftx) \ (DOMAIN no_invalidation_ift)
        |-> no_invalidation_iftx[x]]

select_next_patches_from_candidates(cands, ift_id, iftx_id) ==
    LET lists == SortCandidates(EmptyLists, cands, ift_id, iftx_id)
        full == SelectFull(lists.full_invalidation)
        ift_sel == SelectIftPartial(lists.partial_invalidation_ift)
        ift_selected_uri == IF ift_sel = None THEN None ELSE Some(ift_sel[1].uri)
        iftx_sel == SelectIftxPartial(lists.partial_invalidation_iftx, ift_selected_uri)
        iftx_selected_uri == IF iftx_sel = None THEN None ELSE Some(iftx_sel[1].uri)
        no_invalidation_iftx == RemoveSelected(lists.no_invalidation_iftx,
                                               iftx_selected_uri, ift_selected_uri)
        no_invalidation_ift == RemoveSelected(lists.no_invalidation_ift,
                                              ift_selected_uri, iftx_selected_uri)
    IN  IF full # None THEN Full(full[1])
        ELSE IF ift_sel # None /\ iftx_sel # None
        THEN Mixed(PartialInvalidation(ift_sel[1]), PartialInvalidation(iftx_sel[1]))
        ELSE IF ift_sel # None
        THEN Mixed(PartialInvalidation(ift_sel[1]), NoInvalidation(no_invalidation_iftx))
        ELSE IF iftx_sel # None
        THEN Mixed(NoInvalidation(no_invalidation_ift), PartialInvalidation(iftx_sel[1]))
        ELSE Mixed(NoInvalidation(no_invalidation_ift),
                   NoInvalidation(RemoveAllIn(no_invalidation_iftx, no_invalidation_ift)))

(***************************************************************************)
(* Iteration over a group.                                                 *)
(***************************************************************************)
\* ScopedGroup::no_invalidation_iter
no_invalidation_iter(scope) ==
    IF scope.kind = "PartialInvalidation" THEN <<>> ELSE BTreeValues(scope.map)

\* PatchGroup::invalidating_patch_iter: full, then partial_1, then partial_2.
invalidating_patch_iter(p) ==
    LET full == IF p # None /\ p[1].kind = "Full" THEN <<p[1].patch>> ELSE <<>>
        partial_1 == IF p # None /\ p[1].kind = "Mixed"
                        /\ p[1].ift.kind = "PartialInvalidation"
                     THEN <<p[1].ift.patch>> ELSE <<>>
        partial_2 == IF p # None /\ p[1].kind = "Mixed"
                        /\ p[1].iftx.kind = "PartialInvalidation"
                     THEN <<p[1].iftx.patch>> ELSE <<>>
    IN  full \o partial_1 \o partial_2

non_invalidating_patch_iter_IftxFirst(p) ==
    IF p # None /\ p[1].kind = "Mixed"
    THEN no_invalidation_iter(p[1].iftx) \o no_invalidation_iter(p[1].ift)
    ELSE <<>>

\* PatchGroup::non_invalidating_patch_iter: the IFT scope, then the IFTX scope.
non_invalidating_patch_iter(p) ==
    IF p # None /\ p[1].kind = "Mixed"
    THEN no_invalidation_iter(p[1].ift) \o no_invalidation_iter(p[1].iftx)
    ELSE <<>>

next_invalidating_patch_Last(p) ==
    LET all == invalidating_patch_iter(p)
    IN  IF all = <<>> THEN None ELSE Some(all[Len(all)])

\* PatchGroup::next_invalidating_patch
next_invalidating_patch(p) == First(invalidating_patch_iter(p))

\* PatchGroup::uris
uris(p) ==
    LET infos == invalidating_patch_iter(p) \o non_invalidating_patch_iter(p)
    IN  [i \in 1..Len(infos) |-> infos[i].uri]

ScopedGroup_has_uris_Always(scope) == TRUE

\* ScopedGroup::has_uris
ScopedGroup_has_uris(scope) ==
    IF scope.kind = "PartialInvalidation" THEN TRUE
    ELSE DOMAIN scope.map # {}

has_uris_SomeGroup(p) == p # None

\* PatchGroup::has_uris
has_uris(p) ==
    IF p = None THEN FALSE
    ELSE IF p[1].kind = "Full" THEN TRUE
    ELSE ScopedGroup_has_uris(p[1].ift) \/ ScopedGroup_has_uris(p[1].iftx)

(***************************************************************************)
(* Specification of the selection: the caller builds a candidate list and  *)
(* the two compatibility ids, then selects.                                *)
(***************************************************************************)
\* The current ids of the two tables.  Compatibility ids are opaque values
\* that are only compared for equality, so the current ids are named in order
\* of first use (absent/absent, one present, both equal, both different); the
\* candidates range over every id value.
CurrentCompatIds ==
    {ids \in OptCompatIds \X OptCompatIds :
        /\ ids[1] \in {None, Some(1)}
        /\ ids[1] = None => ids[2] \in {None, Some(1)}}

InitSelect ==
    /\ candidates = <<>>
    /\ \E ids \in CurrentCompatIds :
          /\ ift_compat_id = ids[1]
          /\ iftx_compat_id = ids[2]
    /\ patches = None
    /\ pc = "candidates"
    /\ patch_data = EmptyMap
    /\ old_patch_data = EmptyMap
    /\ result = "NotCalled"
    /\ table_keyed_calls = <<>>
    /\ glyph_keyed_calls = <<>>
    /\ ift_font = None
    /\ subset_codepoints = {}
    /\ subset_features = {}
    /\ overflow_checks = FALSE
    /\ intersect_result = "NotCalled"
    /\ patch_uris = <<>>
    /\ work = <<>>
    /\ feature_walk = NotEntered

\* The caller appends one more candidate to the list.
AddCandidate ==
    /\ pc = "candidates"
    /\ Len(candidates) < MaxCands
    /\ \E uri \in PatchUris : candidates' = Append(candidates, uri)
    /\ UNCHANGED <<ift_compat_id, iftx_compat_id, patches, pc>>
    /\ UNCHANGED applyVars
    /\ UNCHANGED intersectVars

\* PatchGroup::select_next_patches_from_candidates
SelectNextPatchesFromCandidates ==
    /\ pc = "candidates"
    /\ patches' = Some(select_next_patches_from_candidates(
                           candidates, ift_compat_id, iftx_compat_id))
    /\ pc' = "selected"
    /\ UNCHANGED <<candidates, ift_compat_id, iftx_compat_id>>
    /\ UNCHANGED applyVars
    /\ UNCHANGED intersectVars

\* The caller runs the selection a second time on the same candidate list
\* and the same compatibility ids.
SelectAgain ==
    /\ pc = "selected"
    /\ patches' = Some(select_next_patches_from_candidates(
                           candidates, ift_compat_id, iftx_compat_id))
    /\ pc' = "reselected"
    /\ UNCHANGED <<candidates, ift_compat_id, iftx_compat_id>>
    /\ UNCHANGED applyVars
    /\ UNCHANGED intersectVars

NextSelect == AddCandidate \/ SelectNextPatchesFromCandidates \/ SelectAgain

SpecSelect == InitSelect /\ [][NextSelect]_vars

(***************************************************************************)
(* apply_next_patches.                                                     *)
(***************************************************************************)
\* UriStatus
Applied == [status |-> "Applied"]
Pending(bytes) == [status |-> "Pending", bytes |-> bytes]

\* The patch data a caller can have fetched for a URI.
PatchBytes == {"data_a", "data_b"}
UriStatuses == {Applied} \cup {Pending(b) : b \in PatchBytes}

\* HashMap<String, UriStatus>: every map from some URIs to a status.
StatusMaps == UNION {[S -> UriStatuses] : S \in SUBSET Uris}

\* HashMap::get / get_mut returning None
IsMissing(pd, uri) == uri \notin DOMAIN pd
IsPending(pd, uri) == uri \in DOMAIN pd /\ pd[uri].status = "Pending"
IsApplied(pd, uri) == uri \in DOMAIN pd /\ pd[uri].status = "Applied"

\* What one call does: its return value, the status map it leaves and the
\* calls of the two external appliers it made, each with the arguments it was
\* given and whether the applier succeeded.
Outcome(res, pd, table_keyed, glyph_keyed) ==
    [result |-> res, patch_data |-> pd,
     table_keyed_calls |-> table_keyed, glyph_keyed_calls |-> glyph_keyed]

MarkApplied_All(pd, uri) == [u \in DOMAIN pd |-> Applied]

\* *entry = UriStatus::Applied
MarkApplied(pd, uri) == [pd EXCEPT ![uri] = Applied]

TableKeyedStep_MarksOnFailure(patch, pd, table_keyed_ok) ==
    LET call == [patch |-> patch, data |-> pd[patch.uri].bytes, ok |-> table_keyed_ok]
    IN  IF table_keyed_ok
        THEN Outcome("Ok", MarkApplied(pd, patch.uri), <<call>>, <<>>)
        ELSE Outcome("PatchApplicationFailed", MarkApplied(pd, patch.uri), <<call>>, <<>>)

\* The Pending arm of the match on the invalidating patch's entry: the table
\* keyed applier is called; `?` returns its error before the entry is set.
TableKeyedStep(patch, pd, table_keyed_ok) ==
    LET call == [patch |-> patch, data |-> pd[patch.uri].bytes, ok |-> table_keyed_ok]
    IN  IF table_keyed_ok
        THEN Outcome("Ok", MarkApplied(pd, patch.uri), <<call>>, <<>>)
        ELSE Outcome("PatchApplicationFailed", pd, <<call>>, <<>>)

AnyMissing_Skipped(infos, pd) == FALSE

\* The loop over non_invalidating_patch_iter returns MissingPatches at the
\* first URI without an entry.
AnyMissing(infos, pd) ==
    \E i \in 1..Len(infos) : IsMissing(pd, infos[i].uri)

AccumulatedInfo_AlsoApplied(infos, pd) ==
    LET present == SelectSeq(infos, LAMBDA info : ~IsMissing(pd, info.uri))
    IN  [i \in 1..Len(present) |->
            <<present[i],
              IF IsPending(pd, present[i].uri)
              THEN pd[present[i].uri].bytes ELSE "data_a">>]

\* accumulated_info: the (info, data) pairs of the Pending entries, in
\* iteration order.
AccumulatedInfo(infos, pd) ==
    LET pending == SelectSeq(infos, LAMBDA info : IsPending(pd, info.uri))
    IN  [i \in 1..Len(pending) |-> <<pending[i], pd[pending[i].uri].bytes>>]

IsEmptyPatchList_Never(accumulated_info) == FALSE

\* accumulated_info.is_empty()
IsEmptyPatchList(accumulated_info) == accumulated_info = <<>>

MarkAllApplied_OnlyGroup(pd, infos) ==
    [u \in {v \in DOMAIN pd : \E i \in 1..Len(infos) : infos[i].uri = v} |-> Applied]

\* The final loop: every no-invalidation URI with an entry becomes Applied.
MarkAllApplied(pd, infos) ==
    [u \in DOMAIN pd |->
        IF \E i \in 1..Len(infos) : infos[i].uri = u THEN Applied ELSE pd[u]]

\* "No invalidating patches left, so apply any non invalidating ones in one
\* pass."
GlyphKeyedStep(p, pd, glyph_keyed_ok) ==
    LET infos == non_invalidating_patch_iter(p)
        accumulated_info == AccumulatedInfo(infos, pd)
        call == [patches |-> accumulated_info, ok |-> glyph_keyed_ok]
    IN  IF AnyMissing(infos, pd)
        THEN Outcome("MissingPatches", pd, <<>>, <<>>)
        ELSE IF IsEmptyPatchList(accumulated_info)
        THEN Outcome("EmptyPatchList", pd, <<>>, <<>>)
        ELSE IF ~glyph_keyed_ok
        THEN Outcome("PatchApplicationFailed", pd, <<>>, <<call>>)
        ELSE Outcome("Ok", MarkAllApplied(pd, infos), <<>>, <<call>>)

apply_next_patches_StopsAtApplied(p, pd, table_keyed_ok, glyph_keyed_ok) ==
    LET next == next_invalidating_patch(p)
    IN  IF next # None /\ IsMissing(pd, next[1].uri)
        THEN Outcome("MissingPatches", pd, <<>>, <<>>)
        ELSE IF next # None /\ IsPending(pd, next[1].uri)
        THEN TableKeyedStep(next[1], pd, table_keyed_ok)
        ELSE IF next # None
        THEN Outcome("EmptyPatchList", pd, <<>>, <<>>)
        ELSE GlyphKeyedStep(p, pd, glyph_keyed_ok)

\* PatchGroup::apply_next_patches
apply_next_patches(p, pd, table_keyed_ok, glyph_keyed_ok) ==
    LET next == next_invalidating_patch(p)
    IN  IF next # None /\ IsMissing(pd, next[1].uri)
        THEN Outcome("MissingPatches", pd, <<>>, <<>>)
        ELSE IF next # None /\ IsPending(pd, next[1].uri)
        THEN TableKeyedStep(next[1], pd, table_keyed_ok)
        ELSE GlyphKeyedStep(p, pd, glyph_keyed_ok)

(***************************************************************************)
(* Specification of the application: the caller holds a selected group and *)
(* a status map, calls apply_next_patches, and goes on to the next round   *)
(* with another selected group and the same status map.                    *)
(***************************************************************************)
\* Every candidate list of at most n candidates.
CandidateLists(n) == UNION {[1..k -> PatchUris] : k \in 0..n}

\* PatchGroup::select_next_patches: no group for an empty candidate list.
select_next_patches(cands, ift_id, iftx_id) ==
    IF cands = <<>> THEN None
    ELSE Some(select_next_patches_from_candidates(cands, ift_id, iftx_id))

\* The groups a caller can hold: the ones the two selections return.  A
\* group holds a URI at most once and each of its patches stems from one
\* candidate, so the lists of as many candidates as there are URIs select
\* every group that a longer list selects.
SelectableGroups ==
    UNION {{select_next_patches(cands, ids[1], ids[2]),
            Some(select_next_patches_from_candidates(cands, ids[1], ids[2]))} :
              cands \in CandidateLists(Cardinality(Uris)), ids \in CurrentCompatIds}

InitApply ==
    /\ candidates = <<>>
    /\ ift_compat_id = None
    /\ iftx_compat_id = None
    /\ patches \in SelectableGroups
    /\ pc = "selected"
    /\ patch_data \in StatusMaps
    /\ old_patch_data = patch_data
    /\ result = "NotCalled"
    /\ table_keyed_calls = <<>>
    /\ glyph_keyed_calls = <<>>
    /\ ift_font = None
    /\ subset_codepoints = {}
    /\ subset_features = {}
    /\ overflow_checks = FALSE
    /\ intersect_result = "NotCalled"
    /\ patch_uris = <<>>
    /\ work = <<>>
    /\ feature_walk = NotEntered

\* PatchGroup::apply_next_patches; the two external appliers succeed or fail.
ApplyNextPatches ==
    /\ pc = "selected"
    /\ \E table_keyed_ok \in BOOLEAN, glyph_keyed_ok \in BOOLEAN :
          LET out == apply_next_patches(patches, patch_data,
                                        table_keyed_ok, glyph_keyed_ok)
          IN  /\ old_patch_data' = patch_data
              /\ patch_data' = out.patch_data
              /\ result' = out.result
              /\ table_keyed_calls' = out.table_keyed_calls
              /\ glyph_keyed_calls' = out.glyph_keyed_calls
    /\ pc' = "applied"
    /\ UNCHANGED <<patches, candidates, ift_compat_id, iftx_compat_id>>
    /\ UNCHANGED intersectVars

\* The caller goes on to the next round: it selects again and holds the
\* group for the next call, with the status map as the last call left it.
NextRound ==
    /\ pc = "applied"
    /\ patches' \in SelectableGroups
    /\ pc' = "selected"
    /\ old_patch_data' = patch_data
    /\ result' = "NotCalled"
    /\ table_keyed_calls' = <<>>
    /\ glyph_keyed_calls' = <<>>
    /\ UNCHANGED <<patch_data, candidates, ift_compat_id, iftx_compat_id>>
    /\ UNCHANGED intersectVars

NextApply == ApplyNextPatches \/ NextRound

SpecApply == InitApply /\ [][NextApply]_vars

(***************************************************************************)
(* skrifa/src/patchmap.rs: intersection of a subset definition with the    *)
(* format 1 patch maps of a font.                                          *)
(***************************************************************************)
\* Result<_, ReadError>, and a panic of the call.
Ok(v) == [ok |-> TRUE, value |-> v]
Err(e) == [ok |-> FALSE, error |-> e]
MalformedData == "MalformedData"
OutOfBounds == "OutOfBounds"
Panic == "Panic"

\* u16 arithmetic: with overflow checks (a debug build) an overflow panics,
\* without them (a release build) the value wraps.
U16Range == 65536
Overflows(x) == x >= U16Range
WrapU16(x) == x % U16Range

\* PatchEncoding::from_format_number
from_format_number(format) ==
    CASE format = 1 -> Some("Brotli")
      [] format = 2 -> Some("PerTableBrotli{fully_invalidating:true}")
      [] format = 3 -> Some("PerTableBrotli{fully_invalidating:false}")
      [] format = 4 -> Some("GlyphKeyed")
      [] OTHER -> None

\* PatchUri::from_index: the entry index is not yet substituted into the
\* template.
from_index(uri_template, entry_index, enc) ==
    [uri |-> uri_template, encoding |-> enc]

\* PatchMapFormat1::is_entry_applied: the bit of the entry in the table's
\* applied entries bitmap.
is_entry_applied(map, index) == index \in map.applied_entries

\* One piece of work done for a table, in the order it is done.
CharmapLookup(table, cp) == [table |-> table, op |-> "charmap", cp |-> cp]
Decode(table, record, k, index) ==
    [table |-> table, op |-> "decode", record |-> record, k |-> k, index |-> index]
Emit(table, index) == [table |-> table, op |-> "emit", index |-> index]

TopLevelValidation_GlyphCountUnchecked(font, map) ==
    IF map.max_glyph_map_entry_index > map.max_entry_index
    THEN Err(MalformedData)
    ELSE IF ~map.uri_template.ok
    THEN Err(MalformedData)
    ELSE IF from_format_number(map.patch_encoding) = None
    THEN Err(MalformedData)
    ELSE Ok(<<>>)

\* Step 0: top level field validation.
TopLevelValidation(font, map) ==
    IF font.maxp # None /\ map.glyph_count # font.maxp[1]
    THEN Err(MalformedData)
    ELSE IF map.max_glyph_map_entry_index > map.max_entry_index
    THEN Err(MalformedData)
    ELSE IF ~map.uri_template.ok
    THEN Err(MalformedData)
    ELSE IF from_format_number(map.patch_encoding) = None
    THEN Err(MalformedData)
    ELSE Ok(<<>>)

GlyphEntryIndex_FromFirstElement(glyph_map, gid) ==
    IF gid + 1 > Len(glyph_map.entry_index)
    THEN Err(OutOfBounds)
    ELSE Ok(glyph_map.entry_index[gid + 1])

\* The entry index of a glyph in the glyph map: 0 below the first mapped
\* glyph, else the element of the entry index array, which may be too short.
GlyphEntryIndex(glyph_map, gid) ==
    IF gid < glyph_map.first_mapped_glyph THEN Ok(0)
    ELSE IF gid - glyph_map.first_mapped_glyph + 1 > Len(glyph_map.entry_index)
    THEN Err(OutOfBounds)
    ELSE Ok(glyph_map.entry_index[gid - glyph_map.first_mapped_glyph + 1])

\* The loop of intersect_format1_glyph_map over the codepoints, in ascending
\* order, from the state st = [result, entries, work].
RECURSIVE GlyphMapLoop(_, _, _, _, _)
GlyphMapLoop(font, map, glyph_map, cps, st) ==
    IF cps = <<>> THEN st
    ELSE
        LET cp == Head(cps)
            gid == font.charmap[cp]
            looked == [st EXCEPT !.work = Append(@, CharmapLookup(map.table, cp))]
        IN  IF gid = None
            THEN GlyphMapLoop(font, map, glyph_map, Tail(cps), looked)
            ELSE
                LET entry_index == GlyphEntryIndex(glyph_map, gid[1])
                IN  IF ~entry_index.ok
                    THEN [looked EXCEPT !.result = entry_index]
                    ELSE IF entry_index.value > map.max_glyph_map_entry_index
                    THEN GlyphMapLoop(font, map, glyph_map, Tail(cps), looked)
                    ELSE GlyphMapLoop(font, map, glyph_map, Tail(cps),
                             [looked EXCEPT !.entries = @ \cup {entry_index.value}])

\* intersect_format1_glyph_map
intersect_format1_glyph_map(font, map, codepoints, st) ==
    IF ~map.glyph_map.ok
    THEN [st EXCEPT !.result = map.glyph_map]
    ELSE GlyphMapLoop(font, map, map.glyph_map.value, KeysAscending(codepoints), st)

\* The validity test of one decoded mapping; `last` is read from
\* first_entry_index, as `first` is.
MappingInvalid(first, last, mapped_entry_index, map) ==
    \/ first > last
    \/ first > map.max_glyph_map_entry_index
    \/ last > map.max_glyph_map_entry_index
    \/ mapped_entry_index <= map.max_glyph_map_entry_index
    \/ mapped_entry_index > map.max_entry_index

\* The loop `for i in 0..entry_count` over the mappings of the record at
\* position rec, from the state st.
RECURSIVE DecodeLoop(_, _, _, _, _, _, _, _)
DecodeLoop(map, feature_map, rec, i, entry_count, tot_entry_count, checks, st) ==
    IF i >= entry_count THEN st
    ELSE
        LET field_width == IF map.max_entry_index < 256 THEN 1 ELSE 2
            index == i + tot_entry_count
            byte_index == WrapU16(index) * field_width * 2
            data_len == Len(feature_map.entry_map_data) * field_width * 2
            element == (WrapU16(byte_index) \div (field_width * 2)) + 1
        IN  IF checks /\ (Overflows(index) \/ Overflows(byte_index))
            THEN [st EXCEPT !.result = Err(Panic)]
            ELSE IF WrapU16(byte_index) > data_len
            THEN [st EXCEPT !.result = Err(Panic)]
            ELSE IF WrapU16(byte_index) = data_len
            THEN [st EXCEPT !.result = Err(OutOfBounds)]
            ELSE
                LET record == feature_map.entry_map_data[element]
                    sum == record.first_entry_index + i
                    mapped_entry_index == WrapU16(sum)
                    first == record.first_entry_index
                    last == record.first_entry_index
                    decoded == [st EXCEPT !.work =
                                   Append(@, Decode(map.table, rec, i, element - 1))]
                IN  IF checks /\ Overflows(sum)
                    THEN [decoded EXCEPT !.result = Err(Panic)]
                    ELSE IF MappingInvalid(first, last, mapped_entry_index, map)
                    THEN DecodeLoop(map, feature_map, rec, i + 1, entry_count,
                                    tot_entry_count, checks, decoded)
                    ELSE DecodeLoop(map, feature_map, rec, i + 1, entry_count,
                                    tot_entry_count, checks,
                                    [decoded EXCEPT !.entries = @ \cup {mapped_entry_index}])

\* The merge walk of intersect_format1_feature_map.  tags are the requested
\* tags in ascending order; t and r are the positions of next_tag and
\* next_record; walk = [cumulative_entry_map_count, largest_tag].
RECURSIVE FeatureMapLoop(_, _, _, _, _, _, _, _)
FeatureMapLoop(map, feature_map, tags, t, r, walk, checks, st) ==
    IF t > Len(tags) \/ r > Len(feature_map.feature_records) THEN st
    ELSE
        LET tag == tags[t]
            next_record == feature_map.feature_records[r]
        IN  IF ~next_record.ok
            THEN [st EXCEPT !.result = next_record]
            ELSE
            LET record == next_record.value
            IN  IF tag > record.feature_tag
                THEN FeatureMapLoop(map, feature_map, tags, t, r + 1, walk, checks, st)
                ELSE IF walk.largest_tag # None /\ tag <= walk.largest_tag[1]
                THEN FeatureMapLoop(map, feature_map, tags, t + 1, r, walk, checks, st)
                ELSE
                LET entry_count == record.entry_map_count
                    tot_entry_count == walk.cumulative_entry_map_count
                    sum == walk.cumulative_entry_map_count + entry_count
                    counted == [cumulative_entry_map_count |-> WrapU16(sum),
                                largest_tag |-> Some(tag)]
                IN  IF checks /\ Overflows(sum)
                    THEN [st EXCEPT !.result = Err(Panic)]
                    ELSE IF tag < record.feature_tag
                    THEN FeatureMapLoop(map, feature_map, tags, t + 1, r, counted,
                                        checks, st)
                    ELSE
                    LET decoded == DecodeLoop(map, feature_map, r, 0, entry_count,
                                              tot_entry_count, checks, st)
                    IN  IF ~decoded.result.ok THEN decoded
                        ELSE FeatureMapLoop(map, feature_map, tags, t, r, counted,
                                            checks, decoded)

intersect_format1_feature_map_EveryRecordTag(map, features, checks, st) ==
    IF map.feature_map = None THEN st
    ELSE IF ~map.feature_map[1].ok
    THEN [st EXCEPT !.result = map.feature_map[1]]
    ELSE FeatureMapLoop(map, map.feature_map[1].value,
                        KeysAscending({map.feature_map[1].value.feature_records[r].value.feature_tag :
                            r \in {x \in 1..Len(map.feature_map[1].value.feature_records) :
                                       map.feature_map[1].value.feature_records[x].ok}}),
                        1, 1,
                        [cumulative_entry_map_count |-> 0, largest_tag |-> None],
                        checks, st)

\* intersect_format1_feature_map
intersect_format1_feature_map(map, features, checks, st) ==
    IF map.feature_map = None THEN st
    ELSE IF ~map.feature_map[1].ok
    THEN [st EXCEPT !.result = map.feature_map[1]]
    ELSE FeatureMapLoop(map, map.feature_map[1].value, KeysAscending(features), 1, 1,
                        [cumulative_entry_map_count |-> 0, largest_tag |-> None],
                        checks, st)

EmittedEntries_WithZero(map, entries) ==
    SelectSeq(KeysAscending(entries), LAMBDA index : ~is_entry_applied(map, index))

\* Step 3: the entries that become patches, in ascending order: "Entry 0 is
\* the entry for codepoints already in the font, so it's always considered
\* applied and skipped."
EmittedEntries(map, entries) ==
    SelectSeq(KeysAscending(entries),
              LAMBDA index : index > 0 /\ ~is_entry_applied(map, index))

\* add_intersecting_format1_patches, from the state st = [result, patches,
\* work] of intersecting_patches.
add_intersecting_format1_patches(font, map, codepoints, features, checks, st) ==
    LET valid == TopLevelValidation(font, map)
        start == [result |-> Ok(<<>>), entries |-> {}, work |-> st.work]
        step1 == intersect_format1_glyph_map(font, map, codepoints, start)
        step2 == intersect_format1_feature_map(map, features, checks, step1)
        emitted == EmittedEntries(map, step2.entries)
        encoding_of == from_format_number(map.patch_encoding)[1]
    IN  IF ~valid.ok THEN [st EXCEPT !.result = valid]
        ELSE IF ~step1.result.ok
        THEN [st EXCEPT !.result = step1.result, !.work = step1.work]
        ELSE IF ~step2.result.ok
        THEN [st EXCEPT !.result = step2.result, !.work = step2.work]
        ELSE [result |-> Ok(<<>>),
              patches |-> st.patches \o
                  [i \in 1..Len(emitted) |->
                      from_index(map.uri_template.value, emitted[i], encoding_of)],
              work |-> step2.work \o
                  [i \in 1..Len(emitted) |-> Emit(map.table, emitted[i])]]

\* add_intersecting_patches: format 2 is not implemented (todo!()).
add_intersecting_patches(font, ift, codepoints, features, checks, st) ==
    IF ift.format = 1
    THEN add_intersecting_format1_patches(font, ift, codepoints, features, checks, st)
    ELSE [st EXCEPT !.result = Err(Panic)]

\* intersecting_patches: the IFT table, then the IFTX table; `?` returns the
\* first error and drops the patches collected so far.
intersecting_patches(font, codepoints, features, checks) ==
    LET start == [result |-> Ok(<<>>), patches |-> <<>>, work |-> <<>>]
        after_ift == IF font.ift = None THEN start
                     ELSE add_intersecting_patches(font, font.ift[1], codepoints,
                                                   features, checks, start)
        after_iftx == IF font.iftx = None THEN after_ift
                      ELSE add_intersecting_patches(font, font.iftx[1], codepoints,
                                                    features, checks, after_ift)
    IN  IF ~after_ift.result.ok THEN [after_ift EXCEPT !.patches = <<>>]
        ELSE IF ~after_iftx.result.ok THEN [after_iftx EXCEPT !.patches = <<>>]
        ELSE after_iftx

(***************************************************************************)
(* Specification of the intersection: a font with its patch map tables and *)
(* a subset definition are given, and intersecting_patches is called.      *)
(***************************************************************************)
\* The codepoints and feature tags a subset definition is made of; tags are
\* ordered as the integers are.
Codepoints == {1, 2, 3}
Tags == {1, 2}

\* The character map of the font (an external collaborator): codepoint 1 is
\* glyph 0, codepoint 2 is glyph 1 and codepoint 3 has no glyph.
Charmap == [cp \in Codepoints |-> CASE cp = 1 -> Some(0) [] cp = 2 -> Some(1) [] OTHER -> None]

\* maxp.num_glyphs() of the font, when it has a maxp table.
MaxpChoices == {None, Some(2)}

EntryIndices == 0..MaxEntryIndex

\* A PatchMapFormat1 table (format 2 tables carry the same fields here).
PatchMap(table, header, applied, glyph_map, feature_map) ==
    [table |-> table,
     format |-> header.format,
     glyph_count |-> header.glyph_count,
     max_entry_index |-> header.max_entry_index,
     max_glyph_map_entry_index |-> header.max_glyph_map_entry_index,
     patch_encoding |-> header.patch_encoding,
     uri_template |-> header.uri_template,
     applied_entries |-> applied,
     glyph_map |-> glyph_map,
     feature_map |-> feature_map]

\* Every header, the four violations of the top level validation included.
Headers ==
    [format : {1, 2},
     glyph_count : {2, 3},
     max_entry_index : EntryIndices,
     max_glyph_map_entry_index : EntryIndices,
     patch_encoding : 0..5,
     uri_template : {Ok("template"), Err("Utf8Error")}]

\* The headers that pass the validation against a maxp of two glyphs.
ValidHeaders ==
    {h \in Headers :
        /\ h.format = 1
        /\ h.glyph_count = 2
        /\ h.max_glyph_map_entry_index <= h.max_entry_index
        /\ h.patch_encoding = 4
        /\ h.uri_template.ok}

\* Glyph maps: the entry index array covers the two glyphs of the font from
\* the first mapped glyph on, or is one element short, or cannot be read.
GlyphMaps ==
    {Err(OutOfBounds)} \cup
    {Ok([first_mapped_glyph |-> first, entry_index |-> entry_index]) :
        first \in 0..2,
        entry_index \in UNION {[1..n -> EntryIndices] : n \in 0..2}}
GlyphMapsOf(first_choices) ==
    {g \in GlyphMaps :
        g.ok => /\ g.value.first_mapped_glyph \in first_choices
                /\ Len(g.value.entry_index) \in
                      {2 - g.value.first_mapped_glyph, 1 - g.value.first_mapped_glyph}}

SimpleGlyphMap == Ok([first_mapped_glyph |-> 0, entry_index |-> <<0, 1>>])

\* Feature maps: at most as many feature records as there are tags, in any
\* order, and at most two mappings in the entry map data.
FeatureRecords ==
    {Ok([feature_tag |-> tag, entry_map_count |-> count]) :
        tag \in Tags, count \in 0..2}
EntryMapRecords ==
    {r \in [first_entry_index : EntryIndices, last_entry_index : EntryIndices] :
        r.last_entry_index \in {0, r.first_entry_index}}
FeatureMaps ==
    {Ok([feature_records |-> records, entry_map_data |-> data]) :
        records \in UNION {[1..n -> FeatureRecords] : n \in 0..Cardinality(Tags)},
        data \in UNION {[1..n -> EntryMapRecords] : n \in 0..2}}

\* Feature maps on which the u16 computations overflow (a record whose count
\* is counted twice), one with a record that cannot be read, and one that
\* cannot be read at all.
LargeFeatureMaps ==
    {Some(Err(OutOfBounds)),
     Some(Ok([feature_records |-> <<Ok([feature_tag |-> 1, entry_map_count |-> 1]),
                                    Err(OutOfBounds)>>,
              entry_map_data |-> <<[first_entry_index |-> 0, last_entry_index |-> 0]>>]))}
    \cup
    {Some(Ok([feature_records |-> <<Ok([feature_tag |-> 2, entry_map_count |-> count])>>,
              entry_map_data |-> <<[first_entry_index |-> 1, last_entry_index |-> 1],
                                   [first_entry_index |-> first, last_entry_index |-> first]>>])) :
        count \in {16384, 32768, 65535}, first \in EntryIndices}

SimpleHeader ==
    [format |-> 1, glyph_count |-> 2, max_entry_index |-> MaxEntryIndex,
     max_glyph_map_entry_index |-> 1, patch_encoding |-> 4,
     uri_template |-> Ok("template")]

\* Fonts with one table whose glyph map, applied entries and limits vary.
GlyphMapFonts ==
    {[ift |-> Some(PatchMap("IFT", h, applied, glyph_map, None)), iftx |-> None,
      maxp |-> Some(2), charmap |-> Charmap] :
        h \in ValidHeaders, applied \in SUBSET EntryIndices,
        glyph_map \in GlyphMapsOf({0, 1})}

\* Fonts with one table whose feature map varies.
FeatureMapFonts ==
    {[ift |-> Some(PatchMap("IFT", h, applied, SimpleGlyphMap, Some(feature_map))),
      iftx |-> None, maxp |-> Some(2), charmap |-> Charmap] :
        h \in {v \in ValidHeaders : v.max_entry_index = MaxEntryIndex},
        applied \in {{MaxEntryIndex}},
        feature_map \in FeatureMaps}

LargeFeatureMapFonts ==
    {[ift |-> Some(PatchMap("IFT", SimpleHeader, {}, SimpleGlyphMap, feature_map)),
      iftx |-> None, maxp |-> Some(2), charmap |-> Charmap] :
        feature_map \in LargeFeatureMaps}

\* Fonts with an IFT table and with or without an IFTX table, whose headers
\* vary, with or without maxp.
SimpleMap(table, h) == PatchMap(table, h, {}, SimpleGlyphMap, None)
ShortGlyphMap(table) ==
    PatchMap(table, SimpleHeader, {},
             Ok([first_mapped_glyph |-> 0, entry_index |-> <<1>>]), None)
HeaderFonts ==
    {[ift |-> Some(SimpleMap("IFT", h)), iftx |-> iftx, maxp |-> maxp,
      charmap |-> Charmap] :
        h \in Headers, maxp \in MaxpChoices,
        iftx \in {None, Some(SimpleMap("IFTX", SimpleHeader))}}
    \cup
    {[ift |-> ift, iftx |-> Some(SimpleMap("IFTX", h)), maxp |-> maxp,
      charmap |-> Charmap] :
        h \in Headers, maxp \in MaxpChoices,
        ift \in {None, Some(SimpleMap("IFT", SimpleHeader)), Some(ShortGlyphMap("IFT"))}}

InitIntersect ==
    /\ \/ /\ ift_font \in GlyphMapFonts
          /\ subset_codepoints \in SUBSET Codepoints
          /\ subset_features = {}
          /\ overflow_checks = FALSE
       \/ /\ ift_font \in FeatureMapFonts
          /\ subset_codepoints \in {{}, {1, 2}}
          /\ subset_features \in SUBSET Tags
          /\ overflow_checks = FALSE
       \/ /\ ift_font \in LargeFeatureMapFonts
          /\ subset_codepoints = {1, 2}
          /\ subset_features \in SUBSET Tags
          /\ overflow_checks \in BOOLEAN
       \/ /\ ift_font \in HeaderFonts
          /\ subset_codepoints \in {{2}, Codepoints}
          /\ subset_features = {}
          /\ overflow_checks = FALSE
    /\ intersect_result = "NotCalled"
    /\ patch_uris = <<>>
    /\ work = <<>>
    /\ feature_walk = NotEntered
    /\ pc = "subset"
    /\ candidates = <<>>
    /\ ift_compat_id = None
    /\ iftx_compat_id = None
    /\ patches = None
    /\ patch_data = EmptyMap
    /\ old_patch_data = EmptyMap
    /\ result = "NotCalled"
    /\ table_keyed_calls = <<>>
    /\ glyph_keyed_calls = <<>>

\* intersecting_patches
IntersectingPatches ==
    /\ pc = "subset"
    /\ LET out == intersecting_patches(ift_font, subset_codepoints, subset_features,
                                       overflow_checks)
       IN  /\ intersect_result' = IF out.result.ok THEN "Ok" ELSE out.result.error
           /\ patch_uris' = out.patches
           /\ work' = out.work
    /\ pc' = "intersected"
    /\ UNCHANGED <<ift_font, subset_codepoints, subset_features, overflow_checks, feature_walk>>
    /\ UNCHANGED <<candidates, ift_compat_id, iftx_compat_id, patches>>
    /\ UNCHANGED applyVars

NextIntersect == IntersectingPatches

SpecIntersect == InitIntersect /\ [][NextIntersect]_vars

(***************************************************************************)
(* Specification of the feature map walk: intersect_format1_feature_map on *)
(* the IFT table of the font, one step per iteration of its `loop` and of  *)
(* its `for`.                                                              *)
(***************************************************************************)
\* The function returns: Ok(()) or the error.
Returned(w, res, branch) == [w EXCEPT !.at = "returned", !.result = res, !.last = branch]

\* Lines 153-165: the function is entered and the two iterators are made.
FeatureMapEntry(map, w) ==
    LET entered == [w EXCEPT !.arithmetic = {}]
    IN  IF map.feature_map = None THEN Returned(entered, "Ok", "no feature map")
        ELSE IF ~map.feature_map[1].ok
        THEN Returned(entered, map.feature_map[1].error, "error")
        ELSE [entered EXCEPT !.at = "loop", !.last = "entered"]

FeatureMapIteration_TagKept(map, feature_map, tags, checks, w) ==
    LET t == w.next_tag
        r == w.next_record
        it == [w EXCEPT !.arithmetic = {}]
    IN  IF t > Len(tags) \/ r > Len(feature_map.feature_records)
        THEN Returned(it, "Ok", "break")
        ELSE IF ~feature_map.feature_records[r].ok
        THEN Returned(it, feature_map.feature_records[r].error, "error")
        ELSE
        LET tag == tags[t]
            record == feature_map.feature_records[r].value
            sum == w.cumulative_entry_map_count + record.entry_map_count
            counted == [it EXCEPT !.largest_tag = Some(tag),
                                  !.cumulative_entry_map_count = WrapU16(sum),
                                  !.arithmetic = {sum}]
        IN  IF tag > record.feature_tag
            THEN [it EXCEPT !.next_record = r + 1, !.last = "next record"]
            ELSE IF w.largest_tag # None /\ tag <= w.largest_tag[1]
            THEN [it EXCEPT !.last = "next tag"]
            ELSE IF checks /\ Overflows(sum)
            THEN Returned(counted, Panic, "panic")
            ELSE IF tag < record.feature_tag
            THEN [counted EXCEPT !.next_tag = t + 1, !.last = "next tag"]
            ELSE [counted EXCEPT !.at = "for", !.i = 0,
                                 !.entry_count = record.entry_map_count,
                                 !.tot_entry_count = w.cumulative_entry_map_count,
                                 !.last = "match"]

\* Lines 166-196: one iteration of the `loop`, up to the `for`.
FeatureMapIteration(map, feature_map, tags, checks, w) ==
    LET t == w.next_tag
        r == w.next_record
        it == [w EXCEPT !.arithmetic = {}]
    IN  IF t > Len(tags) \/ r > Len(feature_map.feature_records)
        THEN Returned(it, "Ok", "break")
        ELSE IF ~feature_map.feature_records[r].ok
        THEN Returned(it, feature_map.feature_records[r].error, "error")
        ELSE
        LET tag == tags[t]
            record == feature_map.feature_records[r].value
            sum == w.cumulative_entry_map_count + record.entry_map_count
            counted == [it EXCEPT !.largest_tag = Some(tag),
                                  !.cumulative_entry_map_count = WrapU16(sum),
                                  !.arithmetic = {sum}]
        IN  IF tag > record.feature_tag
            THEN [it EXCEPT !.next_record = r + 1, !.last = "next record"]
            ELSE IF w.largest_tag # None /\ tag <= w.largest_tag[1]
            THEN [it EXCEPT !.next_tag = t + 1, !.last = "next tag"]
            ELSE IF checks /\ Overflows(sum)
            THEN Returned(counted, Panic, "panic")
            ELSE IF tag < record.feature_tag
            THEN [counted EXCEPT !.next_tag = t + 1, !.last = "next tag"]
            ELSE [counted EXCEPT !.at = "for", !.i = 0,
                                 !.entry_count = record.entry_map_count,
                                 !.tot_entry_count = w.cumulative_entry_map_count,
                                 !.last = "match"]

\* Lines 198-217: one iteration of `for i in 0..entry_count`, or its end.
DecodeIteration(map, feature_map, checks, w) ==
    LET i == w.i
        it == [w EXCEPT !.arithmetic = {}]
        field_width == IF map.max_entry_index < 256 THEN 1 ELSE 2
        index == i + w.tot_entry_count
        byte_index == WrapU16(index) * field_width * 2
        data_len == Len(feature_map.entry_map_data) * field_width * 2
        element == (WrapU16(byte_index) \div (field_width * 2)) + 1
        indexed == [it EXCEPT !.arithmetic = {index, byte_index}]
    IN  IF i >= w.entry_count
        THEN [it EXCEPT !.at = "loop", !.last = "for ended"]
        ELSE IF checks /\ (Overflows(index) \/ Overflows(byte_index))
        THEN Returned(indexed, Panic, "panic")
        ELSE IF WrapU16(byte_index) > data_len
        THEN Returned(indexed, Panic, "panic")
        ELSE IF WrapU16(byte_index) = data_len
        THEN Returned(indexed, OutOfBounds, "error")
        ELSE
            LET record == feature_map.entry_map_data[element]
                sum == record.first_entry_index + i
                mapped_entry_index == WrapU16(sum)
                first == record.first_entry_index
                last == record.first_entry_index
                read == [indexed EXCEPT !.arithmetic = @ \cup {sum}]
            IN  IF checks /\ Overflows(sum)
                THEN Returned(read, Panic, "panic")
                ELSE IF MappingInvalid(first, last, mapped_entry_index, map)
                THEN [read EXCEPT !.i = i + 1, !.last = "invalid"]
                ELSE [read EXCEPT !.i = i + 1, !.last = "insert",
                                  !.entries = @ \cup {mapped_entry_index}]

\* Fonts whose IFT table has a feature map, the large counts included.
WalkFonts == FeatureMapFonts \cup LargeFeatureMapFonts

InitWalk ==
    /\ ift_font \in WalkFonts
    /\ subset_codepoints = {}
    /\ subset_features \in SUBSET Tags
    /\ overflow_checks \in (IF ift_font \in LargeFeatureMapFonts THEN BOOLEAN ELSE {FALSE})
    /\ intersect_result = "NotCalled"
    /\ patch_uris = <<>>
    /\ work = <<>>
    /\ feature_walk = NotEntered
    /\ pc = "subset"
    /\ candidates = <<>>
    /\ ift_compat_id = None
    /\ iftx_compat_id = None
    /\ patches = None
    /\ patch_data = EmptyMap
    /\ old_patch_data = EmptyMap
    /\ result = "NotCalled"
    /\ table_keyed_calls = <<>>
    /\ glyph_keyed_calls = <<>>

WalkUnchanged ==
    /\ UNCHANGED <<ift_font, subset_codepoints, subset_features, overflow_checks,
                   intersect_result, patch_uris, work>>
    /\ UNCHANGED <<candidates, ift_compat_id, iftx_compat_id, patches, pc>>
    /\ UNCHANGED applyVars

\* intersect_format1_feature_map is called for the IFT table.
WalkEnter ==
    /\ feature_walk.at = "entry"
    /\ feature_walk' = FeatureMapEntry(ift_font.ift[1], feature_walk)
    /\ WalkUnchanged

\* One iteration of the `loop`.
WalkIterate ==
    /\ feature_walk.at = "loop"
    /\ feature_walk' = FeatureMapIteration(ift_font.ift[1],
                                           ift_font.ift[1].feature_map[1].value,
                                           KeysAscending(subset_features),
                                           overflow_checks, feature_walk)
    /\ WalkUnchanged

\* One iteration of the `for`.
WalkDecode ==
    /\ feature_walk.at = "for"
    /\ feature_walk' = DecodeIteration(ift_font.ift[1],
                                       ift_font.ift[1].feature_map[1].value,
                                       overflow_checks, feature_walk)
    /\ WalkUnchanged

NextWalk == WalkEnter \/ WalkIterate \/ WalkDecode

SpecWalk == InitWalk /\ [][NextWalk]_vars

\* The function is sequential code that is run to its end: a step that can
\* be taken is taken.
SpecWalkFair == SpecWalk /\ WF_vars(NextWalk)

(***************************************************************************)
(* Properties of the selection.                                            *)
(***************************************************************************)
Selected == pc = "selected"

\* The indices of the candidates with a given encoding.
IndicesOf(enc) == {i \in 1..Len(candidates) : encoding(candidates[i]) = enc}

NoDuplicates(seq) ==
    \A i, j \in 1..Len(seq) : i # j => seq[i] # seq[j]

\* C1: the group returned by the selection holds no URI in more than one
\* place: the places of a group are its invalidating patches followed by the
\* entries of the two no-invalidation sets, and their URIs are all different.
C1_NoUriTwice ==
    Selected =>
        LET places == invalidating_patch_iter(patches)
                          \o non_invalidating_patch_iter(patches)
        IN  /\ NoDuplicates([i \in 1..Len(places) |-> places[i].uri])
            /\ NoDuplicates(uris(patches))

\* C1 witness: a URI that is selected as the partial patch of IFT was also a
\* compatible glyph keyed candidate of IFTX, and IFTX kept another entry.
C1_Witness ==
    /\ Selected
    /\ patches[1].kind = "Mixed"
    /\ patches[1].ift.kind = "PartialInvalidation"
    /\ patches[1].iftx.kind = "NoInvalidation"
    /\ DOMAIN patches[1].iftx.map # {}
    /\ \E i \in IndicesOf(GlyphKeyed) :
          /\ uri_string(candidates[i]) = patches[1].ift.patch.uri
          /\ ~MatchesCompatId(candidates[i], ift_compat_id)
          /\ MatchesCompatId(candidates[i], iftx_compat_id)

\* C2: when the candidate list holds a fully invalidating candidate, the
\* group is Full(p) for the first such candidate p in input order, whatever
\* the compatibility ids are, and p's URI is the only URI of the group.
C2_FirstFullWins ==
    (Selected /\ IndicesOf(TableKeyedFull) # {}) =>
        LET p == candidates[Min(IndicesOf(TableKeyedFull))]
        IN  /\ patches = Some(Full(PatchInfoFrom(p)))
            /\ uris(patches) = <<uri_string(p)>>

\* C2 witness: a full candidate that matches no current compatibility id
\* comes after a compatible partial candidate and before another full one.
C2_Witness ==
    /\ Selected
    /\ Len(candidates) = 3
    /\ encoding(candidates[1]) = TableKeyedPartial
    /\ MatchesCompatId(candidates[1], ift_compat_id)
    /\ encoding(candidates[2]) = TableKeyedFull
    /\ ~MatchesCompatId(candidates[2], ift_compat_id)
    /\ ~MatchesCompatId(candidates[2], iftx_compat_id)
    /\ encoding(candidates[3]) = TableKeyedFull
    /\ uri_string(candidates[3]) # uri_string(candidates[2])
    /\ patches = Some(Full(PatchInfoFrom(candidates[2])))

\* C3 as stated: every group holds at most one invalidating patch, the full
\* patch and the partial patches of both scopes counted together.
C3_AtMostOneInvalidating ==
    Selected => Len(invalidating_patch_iter(patches)) <= 1

\* C3 amended: a group holds at most one invalidating patch per scope.  It
\* holds two only as one partial patch in each scope slot of a Mixed group:
\* then no full candidate was given, the two URIs differ, the two current
\* ids differ and each patch expects the id of the slot that holds it.
C3_AtMostOneInvalidatingPerScope ==
    Selected =>
        LET inv == invalidating_patch_iter(patches)
        IN  /\ Len(inv) <= 2
            /\ patches[1].kind = "Full" => Len(inv) = 1
            /\ Len(inv) = 2 =>
                  /\ patches[1].kind = "Mixed"
                  /\ IndicesOf(TableKeyedFull) = {}
                  /\ inv[1].uri # inv[2].uri
                  /\ Some(inv[1].source_table.cid) = ift_compat_id
                  /\ Some(inv[2].source_table.cid) = iftx_compat_id
                  /\ ift_compat_id # iftx_compat_id

\* C3 witness: a group with a partial patch in both scopes, the IFTX one
\* found after skipping a candidate with the URI selected for IFT.
C3_Witness ==
    /\ Selected
    /\ Len(invalidating_patch_iter(patches)) = 2
    /\ \E i \in IndicesOf(TableKeyedPartial) :
          /\ MatchesCompatId(candidates[i], iftx_compat_id)
          /\ ~MatchesCompatId(candidates[i], ift_compat_id)
          /\ uri_string(candidates[i]) = patches[1].ift.patch.uri

(***************************************************************************)
(* Properties of the application.                                          *)
(***************************************************************************)
Called == pc = "applied"

\* The URIs of the group's no-invalidation patches, in iteration order.
NoInvalidationUris ==
    LET infos == non_invalidating_patch_iter(patches)
    IN  [i \in 1..Len(infos) |-> infos[i].uri]

Range(seq) == {seq[i] : i \in 1..Len(seq)}

\* An external applier that was called in the latest call failed.
ApplierFailed ==
    \/ \E i \in 1..Len(table_keyed_calls) : ~table_keyed_calls[i].ok
    \/ \E i \in 1..Len(glyph_keyed_calls) : ~glyph_keyed_calls[i].ok

NoApplierCalled == table_keyed_calls = <<>> /\ glyph_keyed_calls = <<>>

\* The group's first invalidating patch is Pending when the call is entered.
FirstInvalidatingPending ==
    /\ next_invalidating_patch(patches) # None
    /\ IsPending(old_patch_data, next_invalidating_patch(patches)[1].uri)

\* C4: when the group's first invalidating patch is Pending and the table
\* keyed applier succeeds, the call returns the new font, that URI's entry
\* goes from Pending to Applied and every other entry of the status map is
\* as it was, the keys included.
C4_OnlyInvalidatingEntryChanges ==
    (Called /\ FirstInvalidatingPending /\ ~ApplierFailed) =>
        LET uri == next_invalidating_patch(patches)[1].uri
        IN  /\ result = "Ok"
            /\ DOMAIN patch_data = DOMAIN old_patch_data
            /\ patch_data[uri] = Applied
            /\ \A other \in (DOMAIN old_patch_data) \ {uri} :
                  patch_data[other] = old_patch_data[other]

\* C4 witness: the invalidating patch was applied and another URI of the
\* same group is still Pending.
C4_Witness ==
    /\ Called
    /\ FirstInvalidatingPending
    /\ result = "Ok"
    /\ Len(table_keyed_calls) = 1
    /\ \E other \in Range(uris(patches)) :
          /\ other # next_invalidating_patch(patches)[1].uri
          /\ IsPending(patch_data, other)

\* The group has no invalidating patch, every no-invalidation URI has an
\* entry and one of them is Pending when the call is entered.
OnlyNoInvalidationWithPending ==
    /\ next_invalidating_patch(patches) = None
    /\ \A u \in Range(NoInvalidationUris) : ~IsMissing(old_patch_data, u)
    /\ \E u \in Range(NoInvalidationUris) : IsPending(old_patch_data, u)

\* C5: for such a group the glyph keyed applier is called exactly once (and
\* the table keyed one not at all), with exactly the no-invalidation patches
\* that were Pending and the data of their entries, each once; when it
\* succeeds the call returns the new font and all of them are Applied.
C5_PendingBatchAppliedOnce ==
    (Called /\ OnlyNoInvalidationWithPending) =>
        /\ table_keyed_calls = <<>>
        /\ Len(glyph_keyed_calls) = 1
        /\ LET batch == glyph_keyed_calls[1].patches
               pending == {u \in Range(NoInvalidationUris) : IsPending(old_patch_data, u)}
           IN  /\ {batch[i][1].uri : i \in 1..Len(batch)} = pending
               /\ Len(batch) = Cardinality(pending)
               /\ \A i \in 1..Len(batch) :
                     /\ batch[i][1] \in Range(non_invalidating_patch_iter(patches))
                     /\ batch[i][2] = old_patch_data[batch[i][1].uri].bytes
               /\ glyph_keyed_calls[1].ok =>
                     /\ result = "Ok"
                     /\ \A u \in pending : patch_data[u] = Applied

\* C5 witness: of two no-invalidation URIs one was Applied and one Pending;
\* the applier was given the Pending one only and both are Applied now.
C5_Witness ==
    /\ Called
    /\ OnlyNoInvalidationWithPending
    /\ Len(NoInvalidationUris) = 2
    /\ \E u \in Range(NoInvalidationUris) : IsApplied(old_patch_data, u)
    /\ Len(glyph_keyed_calls) = 1
    /\ Len(glyph_keyed_calls[1].patches) = 1
    /\ result = "Ok"
    /\ \A u \in Range(NoInvalidationUris) : IsApplied(patch_data, u)

\* C6: when an external applier fails the call returns that failure and the
\* status map is what it was when the call was entered.
C6_FailureLeavesStatus ==
    (Called /\ ApplierFailed) =>
        /\ result = "PatchApplicationFailed"
        /\ patch_data = old_patch_data

\* C6 witness: the table keyed applier failed on a Pending invalidating
\* patch, which is still Pending.
C6_Witness ==
    /\ Called
    /\ Len(table_keyed_calls) = 1
    /\ ~table_keyed_calls[1].ok
    /\ IsPending(patch_data, table_keyed_calls[1].patch.uri)
    /\ result = "PatchApplicationFailed"

\* C7: when every URI of the group is Applied on entry, and so for a group
\* without URIs whatever the status map holds, the call returns
\* EmptyPatchList, calls no applier and leaves the status map as it was.
C7_EmptyPatchList ==
    (Called /\ \A u \in Range(uris(patches)) : IsApplied(old_patch_data, u)) =>
        /\ result = "EmptyPatchList"
        /\ NoApplierCalled
        /\ patch_data = old_patch_data

\* C7 witness: a group with an invalidating patch and a no-invalidation
\* patch, both Applied on entry.
C7_Witness ==
    /\ Called
    /\ next_invalidating_patch(patches) # None
    /\ Len(NoInvalidationUris) = 1
    /\ \A u \in Range(uris(patches)) : IsApplied(old_patch_data, u)
    /\ result = "EmptyPatchList"

\* A URI that the step taken needs has no entry: the first invalidating
\* patch, or, when there is none or it is Applied, a no-invalidation URI.
RequiredUriMissing ==
    LET next == next_invalidating_patch(patches)
    IN  \/ next # None /\ IsMissing(old_patch_data, next[1].uri)
        \/ /\ next = None \/ IsApplied(old_patch_data, next[1].uri)
           /\ \E u \in Range(NoInvalidationUris) : IsMissing(old_patch_data, u)

\* C8: when a URI needed by the step has no entry the call returns
\* MissingPatches, calls no applier and leaves the status map as it was.
C8_MissingPatches ==
    (Called /\ RequiredUriMissing) =>
        /\ result = "MissingPatches"
        /\ NoApplierCalled
        /\ patch_data = old_patch_data

\* C8 witness: of two no-invalidation URIs the first is Pending and the
\* second has no entry.
C8_Witness ==
    /\ Called
    /\ next_invalidating_patch(patches) = None
    /\ Len(NoInvalidationUris) = 2
    /\ IsPending(old_patch_data, NoInvalidationUris[1])
    /\ IsMissing(old_patch_data, NoInvalidationUris[2])
    /\ result = "MissingPatches"


(***************************************************************************)
(* Properties of the intersection.                                         *)
(***************************************************************************)
Intersected == pc = "intersected"

\* The tables of the font, IFT first.
Tables ==
    (IF ift_font.ift = None THEN {} ELSE {ift_font.ift[1]}) \cup
    (IF ift_font.iftx = None THEN {} ELSE {ift_font.iftx[1]})
EmittedFor(map) ==
    {work[i].index : i \in {j \in 1..Len(work) : /\ work[j].op = "emit"
                                                  /\ work[j].table = map.table}}
WorkFor(map) == {i \in 1..Len(work) : work[i].table = map.table}

\* The entry indices steps 1 and 2 collect from a table for the subset
\* definition of the call.
CollectedEntries(map) ==
    intersect_format1_feature_map(map, subset_features, overflow_checks,
        intersect_format1_glyph_map(ift_font, map, subset_codepoints,
            [result |-> Ok(<<>>), entries |-> {}, work |-> <<>>])).entries

\* C9: every candidate intersecting_patches emits for a format 1 table comes
\* from an entry index that the table's maps gave for the subset definition,
\* that is greater than zero and that the table does not flag as applied;
\* the call returns one candidate per emission.
C9_EmittedEntriesNonZeroUnapplied ==
    Intersected =>
        /\ \A map \in Tables :
              \A index \in EmittedFor(map) :
                  /\ map.format = 1
                  /\ index \in CollectedEntries(map)
                  /\ index > 0
                  /\ index \notin map.applied_entries
        /\ intersect_result = "Ok" =>
              Len(patch_uris) = Cardinality({i \in 1..Len(work) : work[i].op = "emit"})
        /\ intersect_result # "Ok" => patch_uris = <<>>

\* The maps of a table give entry 0, an applied entry and an entry that is
\* neither, and a candidate is emitted.
C9_Witness ==
    /\ Intersected
    /\ intersect_result = "Ok"
    /\ ift_font.ift # None
    /\ LET map == ift_font.ift[1]
           collected == CollectedEntries(map)
       IN  /\ 0 \in collected
           /\ \E index \in collected : index > 0 /\ index \in map.applied_entries
           /\ EmittedFor(map) # {}
           /\ Len(patch_uris) = Cardinality(EmittedFor(map))

\* The four top level violations of a format 1 table.
GlyphCountMismatch(map) ==
    ift_font.maxp # None /\ map.glyph_count # ift_font.maxp[1]
EntryIndexLimitsInverted(map) == map.max_glyph_map_entry_index > map.max_entry_index
UriTemplateInvalid(map) == ~map.uri_template.ok
EncodingUnrecognized(map) == map.patch_encoding \notin 1..4
TopLevelViolation(map) ==
    \/ GlyphCountMismatch(map)
    \/ EntryIndexLimitsInverted(map)
    \/ UriTemplateInvalid(map)
    \/ EncodingUnrecognized(map)

\* The call gets to a table: the IFT table is first, the IFTX table follows
\* an absent IFT table or one whose own intersection succeeded.
ReachedBy(map) ==
    \/ map.table = "IFT"
    \/ ift_font.ift = None
    \/ add_intersecting_patches(ift_font, ift_font.ift[1], subset_codepoints,
                                subset_features, overflow_checks,
                                [result |-> Ok(<<>>), patches |-> <<>>,
                                 work |-> <<>>]).result.ok

\* C10: for a format 1 table with any of the four top level violations (glyph
\* count differing from maxp when maxp is present, max_glyph_map_entry_index
\* above max_entry_index, a URI template that is not valid text, an encoding
\* format outside 1..4), whatever the subset definition, the call fails, no
\* glyph map or feature map work is done for the table and no candidate is
\* emitted for it; the failure is MalformedData whenever the call gets to the
\* table.
C10_TopLevelViolationFails ==
    Intersected =>
        \A map \in Tables :
            (map.format = 1 /\ TopLevelViolation(map)) =>
                /\ intersect_result # "Ok"
                /\ patch_uris = <<>>
                /\ WorkFor(map) = {}
                /\ ReachedBy(map) => intersect_result = MalformedData

\* The IFTX table has an unrecognized encoding and no other violation, the
\* IFT table before it was intersected and gave a candidate, and the call
\* failed with MalformedData.
C10_Witness ==
    /\ Intersected
    /\ ift_font.ift # None
    /\ ift_font.iftx # None
    /\ LET map == ift_font.iftx[1]
       IN  /\ map.format = 1
           /\ EncodingUnrecognized(map)
           /\ ~GlyphCountMismatch(map)
           /\ ~EntryIndexLimitsInverted(map)
           /\ ~UriTemplateInvalid(map)
           /\ WorkFor(map) = {}
    /\ EmittedFor(ift_font.ift[1]) # {}
    /\ intersect_result = MalformedData
    /\ patch_uris = <<>>

\* The font without one of its two tables.
WithoutTable(font, table) ==
    IF table = "IFT" THEN [font EXCEPT !.ift = None] ELSE [font EXCEPT !.iftx = None]

\* A table whose own intersection succeeds for the subset definition of the
\* call.
IntersectsAlone(map) ==
    add_intersecting_patches(ift_font, map, subset_codepoints, subset_features,
                             overflow_checks,
                             [result |-> Ok(<<>>), patches |-> <<>>,
                              work |-> <<>>]).result.ok

\* C11 as stated: when the font has an IFT and an IFTX table and one of them
\* fails the top level validation while the other one intersects, the call
\* returns the candidates it returns for the font without the failing table.
C11_OtherScopeUnaffected ==
    (Intersected /\ ift_font.ift # None /\ ift_font.iftx # None) =>
        \A failing \in Tables :
            \A valid \in Tables \ {failing} :
                (/\ failing.format = 1
                 /\ TopLevelViolation(failing)
                 /\ IntersectsAlone(valid)) =>
                    patch_uris =
                        intersecting_patches(WithoutTable(ift_font, failing.table),
                                             subset_codepoints, subset_features,
                                             overflow_checks).patches

\* C11, what the call does: the failure of one table is the failure of the
\* call, and the candidates of the other table are not returned.
C11_FailureAbortsCall ==
    (Intersected /\ ift_font.ift # None /\ ift_font.iftx # None) =>
        \A failing \in Tables :
            \A valid \in Tables \ {failing} :
                (/\ failing.format = 1
                 /\ TopLevelViolation(failing)
                 /\ IntersectsAlone(valid)) =>
                    /\ intersect_result = MalformedData
                    /\ patch_uris = <<>>

\* The IFTX table fails the validation; the IFT table alone gives a
\* candidate, which the call does not return.
C11_Witness ==
    /\ Intersected
    /\ ift_font.ift # None
    /\ ift_font.iftx # None
    /\ ift_font.iftx[1].format = 1
    /\ TopLevelViolation(ift_font.iftx[1])
    /\ IntersectsAlone(ift_font.ift[1])
    /\ intersecting_patches(WithoutTable(ift_font, "IFTX"), subset_codepoints,
                            subset_features, overflow_checks).patches # <<>>
    /\ intersect_result = MalformedData
    /\ patch_uris = <<>>

(***************************************************************************)
(* Further properties of the selection.                                    *)
(***************************************************************************)
\* A well formed PatchInfo, ScopedGroup and CompatibleGroup value.
IsPatchInfo(info) ==
    /\ DOMAIN info = {"uri", "source_table"}
    /\ info.uri \in Uris
    /\ info.source_table \in IftTableTags
IsScopedGroup(scope) ==
    \/ /\ scope.kind = "PartialInvalidation"
       /\ DOMAIN scope = {"kind", "patch"}
       /\ IsPatchInfo(scope.patch)
    \/ /\ scope.kind = "NoInvalidation"
       /\ DOMAIN scope = {"kind", "map"}
       /\ DOMAIN scope.map \subseteq Uris
       /\ \A k \in DOMAIN scope.map :
             IsPatchInfo(scope.map[k]) /\ scope.map[k].uri = k
IsCompatibleGroup(group) ==
    \/ /\ group.kind = "Full"
       /\ DOMAIN group = {"kind", "patch"}
       /\ IsPatchInfo(group.patch)
    \/ /\ group.kind = "Mixed"
       /\ DOMAIN group = {"kind", "ift", "iftx"}
       /\ IsScopedGroup(group.ift)
       /\ IsScopedGroup(group.iftx)

\* C12: the selection never fails: for every candidate list and every
\* combination of present and absent compatibility ids it returns a group;
\* for the empty candidate list the group has no URIs (uris() is empty and
\* has_uris() is false), from select_next_patches_from_candidates and from
\* select_next_patches alike.
C12_SelectNeverFails ==
    Selected =>
        /\ patches # None
        /\ IsCompatibleGroup(patches[1])
        /\ candidates = <<>> =>
              LET none == select_next_patches(candidates, ift_compat_id, iftx_compat_id)
              IN  /\ uris(patches) = <<>>
                  /\ ~has_uris(patches)
                  /\ uris(none) = <<>>
                  /\ ~has_uris(none)

\* The empty candidate list was selected from, with one id present and one
\* absent.
C12_Witness ==
    /\ Selected
    /\ candidates = <<>>
    /\ ift_compat_id # None
    /\ iftx_compat_id = None
    /\ patches = Some(Mixed(NoInvalidation(EmptyMap), NoInvalidation(EmptyMap)))

ScopeUrisAscending(scope) ==
    IF scope.kind = "NoInvalidation" THEN KeysAscending(DOMAIN scope.map) ELSE <<>>
PartialUri(scope) ==
    IF scope.kind = "PartialInvalidation" THEN <<scope.patch.uri>> ELSE <<>>
Ascending(seq) == \A i, j \in 1..Len(seq) : i < j => seq[i] < seq[j]

\* C14: uris() yields each URI of the group exactly once, in this order: the
\* invalidating patches (the full patch, or the IFT partial patch then the
\* IFTX partial patch), then the no-invalidation URIs of the IFT scope, then
\* those of the IFTX scope, each scope's set ascending by URI; a group
\* without patches yields nothing.
C14_UrisOrder ==
    /\ patches = None => uris(patches) = <<>>
    /\ patches # None =>
          LET group == patches[1]
          IN  IF group.kind = "Full"
              THEN uris(patches) = <<group.patch.uri>>
              ELSE /\ uris(patches) =
                         PartialUri(group.ift) \o PartialUri(group.iftx)
                         \o ScopeUrisAscending(group.ift)
                         \o ScopeUrisAscending(group.iftx)
                   /\ Ascending(ScopeUrisAscending(group.ift))
                   /\ Ascending(ScopeUrisAscending(group.iftx))
                   /\ NoDuplicates(uris(patches))

\* The IFT scope holds the larger URI and the IFTX scope the smaller one, and
\* the IFT one comes first.
C14_Witness ==
    /\ Selected
    /\ patches[1].kind = "Mixed"
    /\ patches[1].ift.kind = "NoInvalidation"
    /\ patches[1].iftx.kind = "NoInvalidation"
    /\ DOMAIN patches[1].ift.map = {2}
    /\ DOMAIN patches[1].iftx.map = {1}
    /\ uris(patches) = <<2, 1>>

\* C15: for every group, the group without patches and a Mixed group with
\* two empty no-invalidation sets included, has_uris() is true if and only if
\* uris() yields at least one URI.
C15_HasUrisIffUris ==
    has_uris(patches) <=> uris(patches) # <<>>

\* Every candidate of a non-empty list was dropped: the group is Mixed with
\* two empty sets and has no URIs.
C15_Witness ==
    /\ Selected
    /\ candidates # <<>>
    /\ patches = Some(Mixed(NoInvalidation(EmptyMap), NoInvalidation(EmptyMap)))
    /\ ~has_uris(patches)
    /\ uris(patches) = <<>>

(***************************************************************************)
(* Further properties of the application.                                  *)
(***************************************************************************)
\* C16: across every step of every sequence of apply_next_patches calls on
\* the same status map, with any groups and whether the calls succeed or
\* fail, the set of keys of the status map stays the same, an Applied entry
\* stays Applied, and an entry that stays Pending keeps its bytes.
C16_StatusMapMonotonic ==
    [][/\ DOMAIN patch_data' = DOMAIN patch_data
       /\ \A u \in DOMAIN patch_data :
             /\ IsApplied(patch_data, u) => IsApplied(patch_data', u)
             /\ IsPending(patch_data', u) => patch_data'[u] = patch_data[u]]_vars

\* A call succeeded on a status map of two Pending entries: one became
\* Applied, the other one is Pending with the bytes it had.
C16_Witness ==
    /\ Called
    /\ result = "Ok"
    /\ \E u, v \in DOMAIN old_patch_data :
          /\ u # v
          /\ IsPending(old_patch_data, u)
          /\ IsApplied(patch_data, u)
          /\ IsPending(old_patch_data, v)
          /\ patch_data[v] = old_patch_data[v]

\* C17: in a call in which the group's first invalidating patch (the full
\* patch, else the IFT partial patch, else the IFTX partial patch) is
\* Pending, the table keyed applier is invoked exactly once, with that patch
\* and its bytes, and the glyph keyed applier is not invoked; no other entry
\* of the status map changes, be it a second partial patch or a
\* no-invalidation patch of the other scope that is Pending.
C17_OneInvalidatingStepPerCall ==
    (/\ Called
     /\ invalidating_patch_iter(patches) # <<>>
     /\ IsPending(old_patch_data, invalidating_patch_iter(patches)[1].uri)) =>
        LET first == invalidating_patch_iter(patches)[1]
        IN  /\ Len(table_keyed_calls) = 1
            /\ table_keyed_calls[1].patch = first
            /\ table_keyed_calls[1].data = old_patch_data[first.uri].bytes
            /\ glyph_keyed_calls = <<>>
            /\ \A other \in (DOMAIN old_patch_data) \ {first.uri} :
                  patch_data[other] = old_patch_data[other]

\* The group holds two partial patches, both Pending: the applier was called
\* with the IFT one, and the IFTX one is still Pending.
C17_Witness ==
    /\ Called
    /\ Len(invalidating_patch_iter(patches)) = 2
    /\ IsPending(old_patch_data, invalidating_patch_iter(patches)[1].uri)
    /\ IsPending(old_patch_data, invalidating_patch_iter(patches)[2].uri)
    /\ Len(table_keyed_calls) = 1
    /\ table_keyed_calls[1].patch = patches[1].ift.patch
    /\ table_keyed_calls[1].ok
    /\ IsPending(patch_data, patches[1].iftx.patch.uri)
    /\ glyph_keyed_calls = <<>>

(***************************************************************************)
(* The scopes of the selection.                                            *)
(***************************************************************************)
\* A candidate is kept for IFT when it expects the current IFT id, and for
\* IFTX when it does not but expects the current IFTX id.
KeptForIft(uri) == Some(uri.source_table.cid) = ift_compat_id
KeptForIftx(uri) ==
    /\ Some(uri.source_table.cid) # ift_compat_id
    /\ Some(uri.source_table.cid) = iftx_compat_id

\* The partial candidates kept for each scope, in input order.
PartialListIft ==
    SelectSeq(candidates, LAMBDA uri : uri.encoding = TableKeyedPartial /\ KeptForIft(uri))
PartialListIftx ==
    SelectSeq(candidates, LAMBDA uri : uri.encoding = TableKeyedPartial /\ KeptForIftx(uri))

\* The URIs of the glyph keyed candidates kept for each scope.
NoInvalidationCandidatesIft ==
    {candidates[i].uri : i \in {j \in IndicesOf(GlyphKeyed) : KeptForIft(candidates[j])}}
NoInvalidationCandidatesIftx ==
    {candidates[i].uri : i \in {j \in IndicesOf(GlyphKeyed) : KeptForIftx(candidates[j])}}

NoFullCandidate == IndicesOf(TableKeyedFull) = {}
InfoOf(uri) == [uri |-> uri.uri, source_table |-> uri.source_table]

\* C18 as stated: without a full candidate each scope's slot is
\* PartialInvalidation(p) exactly when the scope's partial list is not empty,
\* and p is the first element of that list, whatever the other scope
\* selected.
C18_ScopesIndependent ==
    (Selected /\ NoFullCandidate) =>
        /\ patches[1].kind = "Mixed"
        /\ patches[1].ift.kind = "PartialInvalidation" <=> PartialListIft # <<>>
        /\ PartialListIft # <<>> => patches[1].ift.patch = InfoOf(PartialListIft[1])
        /\ patches[1].iftx.kind = "PartialInvalidation" <=> PartialListIftx # <<>>
        /\ PartialListIftx # <<>> => patches[1].iftx.patch = InfoOf(PartialListIftx[1])

\* C18 amended: the IFT slot is PartialInvalidation(p) exactly when the IFT
\* partial list is not empty, p being its first element; the IFTX slot is
\* PartialInvalidation(q) exactly when the IFTX partial list has an element
\* whose URI is not the URI selected for IFT, q being the first such element.
C18_IftxSkipsIftSelection ==
    (Selected /\ NoFullCandidate) =>
        LET eligible ==
                SelectSeq(PartialListIftx,
                          LAMBDA uri : PartialListIft = <<>>
                                       \/ uri.uri # PartialListIft[1].uri)
        IN  /\ patches[1].kind = "Mixed"
            /\ patches[1].ift.kind = "PartialInvalidation" <=> PartialListIft # <<>>
            /\ PartialListIft # <<>> => patches[1].ift.patch = InfoOf(PartialListIft[1])
            /\ patches[1].iftx.kind = "PartialInvalidation" <=> eligible # <<>>
            /\ eligible # <<>> => patches[1].iftx.patch = InfoOf(eligible[1])

\* The only partial candidate kept for IFTX has the URI selected for IFT: the
\* IFTX slot is a no-invalidation set, which holds an entry.
C18_Witness ==
    /\ Selected
    /\ NoFullCandidate
    /\ PartialListIft # <<>>
    /\ Len(PartialListIftx) = 1
    /\ PartialListIftx[1].uri = PartialListIft[1].uri
    /\ patches[1].ift.kind = "PartialInvalidation"
    /\ patches[1].iftx.kind = "NoInvalidation"
    /\ DOMAIN patches[1].iftx.map # {}

\* The patches a scope slot holds.
SlotInfos(scope) ==
    IF scope.kind = "PartialInvalidation" THEN {scope.patch}
    ELSE {scope.map[k] : k \in DOMAIN scope.map}

\* C19: every partial and every no-invalidation patch of the returned group
\* expects the current compatibility id of the scope slot that holds it; a
\* partial or glyph keyed candidate that expects neither current id (so
\* every such candidate when both ids are absent) is in no slot, and the
\* selection still returns a group.
C19_SlotsHoldCompatiblePatches ==
    (Selected /\ patches[1].kind = "Mixed") =>
        /\ \A info \in SlotInfos(patches[1].ift) :
              Some(info.source_table.cid) = ift_compat_id
        /\ \A info \in SlotInfos(patches[1].iftx) :
              Some(info.source_table.cid) = iftx_compat_id
        /\ \A i \in IndicesOf(TableKeyedPartial) \cup IndicesOf(GlyphKeyed) :
              (~KeptForIft(candidates[i]) /\ ~KeptForIftx(candidates[i])) =>
                  InfoOf(candidates[i]) \notin
                      SlotInfos(patches[1].ift) \cup SlotInfos(patches[1].iftx)

\* A glyph keyed and a partial candidate expect no current id and are in no
\* slot; a glyph keyed candidate with another URI expects the IFT id and is
\* the only patch of the group.
C19_Witness ==
    /\ Selected
    /\ ift_compat_id # None
    /\ Len(candidates) = 3
    /\ candidates[1].encoding = GlyphKeyed
    /\ ~KeptForIft(candidates[1])
    /\ ~KeptForIftx(candidates[1])
    /\ candidates[2].encoding = TableKeyedPartial
    /\ ~KeptForIft(candidates[2])
    /\ ~KeptForIftx(candidates[2])
    /\ candidates[3].encoding = GlyphKeyed
    /\ KeptForIft(candidates[3])
    /\ candidates[3].uri # candidates[1].uri
    /\ patches = Some(Mixed(NoInvalidation(BTreeInsert(EmptyMap, candidates[3].uri,
                                                        InfoOf(candidates[3]))),
                            NoInvalidation(EmptyMap)))

\* C20: when exactly one scope selected a partial patch, its URI is not in
\* the other scope's no-invalidation set, which holds every other URI kept
\* for that scope; when neither scope selected a partial patch, the IFT set
\* holds every URI kept for IFT and the IFTX set every URI kept for IFTX
\* that is not kept for IFT.
C20_CrossScopeExclusive ==
    (Selected /\ patches[1].kind = "Mixed") =>
        LET ift == patches[1].ift
            iftx == patches[1].iftx
        IN  /\ (ift.kind = "PartialInvalidation" /\ iftx.kind = "NoInvalidation") =>
                  /\ ift.patch.uri \notin DOMAIN iftx.map
                  /\ DOMAIN iftx.map = NoInvalidationCandidatesIftx \ {ift.patch.uri}
            /\ (ift.kind = "NoInvalidation" /\ iftx.kind = "PartialInvalidation") =>
                  /\ iftx.patch.uri \notin DOMAIN ift.map
                  /\ DOMAIN ift.map = NoInvalidationCandidatesIft \ {iftx.patch.uri}
            /\ (ift.kind = "NoInvalidation" /\ iftx.kind = "NoInvalidation") =>
                  /\ DOMAIN ift.map = NoInvalidationCandidatesIft
                  /\ DOMAIN iftx.map =
                        NoInvalidationCandidatesIftx \ NoInvalidationCandidatesIft

\* Neither scope selected a partial patch, a URI was kept for both scopes
\* and another one for IFTX only: the first is in the IFT set only, the
\* second in the IFTX set.
C20_Witness ==
    /\ Selected
    /\ patches[1].kind = "Mixed"
    /\ patches[1].ift.kind = "NoInvalidation"
    /\ patches[1].iftx.kind = "NoInvalidation"
    /\ NoInvalidationCandidatesIft \cap NoInvalidationCandidatesIftx # {}
    /\ NoInvalidationCandidatesIftx \ NoInvalidationCandidatesIft # {}
    /\ DOMAIN patches[1].ift.map = NoInvalidationCandidatesIft
    /\ DOMAIN patches[1].iftx.map =
          NoInvalidationCandidatesIftx \ NoInvalidationCandidatesIft

\* The last position of the list at which a glyph keyed candidate with the
\* URI k is kept for IFT, and for IFTX.
Max(S) == CHOOSE x \in S : \A y \in S : y <= x
LastKeptForIft(k) ==
    Max({i \in IndicesOf(GlyphKeyed) :
            candidates[i].uri = k /\ KeptForIft(candidates[i])})
LastKeptForIftx(k) ==
    Max({i \in IndicesOf(GlyphKeyed) :
            candidates[i].uri = k /\ KeptForIftx(candidates[i])})

\* C21: a no-invalidation set of the returned group holds one entry per URI,
\* keyed by the URI, and the entry is the patch info (URI and source table
\* tag) of the last glyph keyed candidate with that URI, in input order,
\* that was kept for the scope.
C21_LastDuplicateRetained ==
    (Selected /\ patches[1].kind = "Mixed") =>
        /\ patches[1].ift.kind = "NoInvalidation" =>
              \A k \in DOMAIN patches[1].ift.map :
                  /\ k \in NoInvalidationCandidatesIft
                  /\ patches[1].ift.map[k] = InfoOf(candidates[LastKeptForIft(k)])
        /\ patches[1].iftx.kind = "NoInvalidation" =>
              \A k \in DOMAIN patches[1].iftx.map :
                  /\ k \in NoInvalidationCandidatesIftx
                  /\ patches[1].iftx.map[k] = InfoOf(candidates[LastKeptForIftx(k)])
        /\ \A k \in Uris :
              Len(SelectSeq(non_invalidating_patch_iter(patches),
                            LAMBDA info : info.uri = k)) <= 1

\* Two glyph keyed candidates with one URI and different source table tags
\* were kept for IFT: the set holds one entry, that of the second one.
C21_Witness ==
    /\ Selected
    /\ Len(candidates) = 2
    /\ candidates[1].encoding = GlyphKeyed
    /\ candidates[2].encoding = GlyphKeyed
    /\ KeptForIft(candidates[1])
    /\ KeptForIft(candidates[2])
    /\ candidates[1].uri = candidates[2].uri
    /\ candidates[1].source_table # candidates[2].source_table
    /\ patches[1].kind = "Mixed"
    /\ patches[1].ift.kind = "NoInvalidation"
    /\ DOMAIN patches[1].ift.map = {candidates[2].uri}
    /\ patches[1].ift.map[candidates[2].uri] = InfoOf(candidates[2])
    /\ uris(patches) = <<candidates[2].uri>>

\* C22: when both compatibility ids are present and equal and there is no
\* full candidate, every partial or glyph keyed candidate that expects that
\* id goes to the IFT slot, whatever its source table tag is: the IFT slot is
\* the first such partial candidate in input order when there is one, else
\* the no-invalidation set of the URIs of such glyph keyed candidates; the
\* IFTX slot is an empty no-invalidation set.
C22_EqualIdsAllToIft ==
    (/\ Selected
     /\ NoFullCandidate
     /\ ift_compat_id # None
     /\ ift_compat_id = iftx_compat_id) =>
        LET partial == SelectSeq(candidates,
                           LAMBDA uri : /\ uri.encoding = TableKeyedPartial
                                        /\ <<uri.source_table.cid>> = ift_compat_id)
            no_invalidation ==
                {candidates[i].uri :
                    i \in {j \in IndicesOf(GlyphKeyed) :
                              <<candidates[j].source_table.cid>> = ift_compat_id}}
        IN  /\ patches[1].kind = "Mixed"
            /\ patches[1].iftx = NoInvalidation(EmptyMap)
            /\ partial # <<>> =>
                  patches[1].ift = PartialInvalidation(InfoOf(partial[1]))
            /\ partial = <<>> =>
                  /\ patches[1].ift.kind = "NoInvalidation"
                  /\ DOMAIN patches[1].ift.map = no_invalidation

\* With equal ids, a partial candidate tagged IFTX comes before one tagged
\* IFT and a glyph keyed one: the IFT slot holds the first, the IFTX slot is
\* empty.
C22_Witness ==
    /\ Selected
    /\ ift_compat_id # None
    /\ ift_compat_id = iftx_compat_id
    /\ Len(candidates) = 3
    /\ candidates[1].encoding = TableKeyedPartial
    /\ candidates[1].source_table.tag = "IFTX"
    /\ <<candidates[1].source_table.cid>> = ift_compat_id
    /\ candidates[2].encoding = TableKeyedPartial
    /\ candidates[2].source_table.tag = "IFT"
    /\ <<candidates[2].source_table.cid>> = ift_compat_id
    /\ candidates[2].uri # candidates[1].uri
    /\ candidates[3].encoding = GlyphKeyed
    /\ <<candidates[3].source_table.cid>> = ift_compat_id
    /\ patches = Some(Mixed(PartialInvalidation(InfoOf(candidates[1])),
                            NoInvalidation(EmptyMap)))

\* The URIs the two appliers were given in the latest call.
UrisGivenToAppliers ==
    {table_keyed_calls[i].patch.uri : i \in 1..Len(table_keyed_calls)}
    \cup UNION {{glyph_keyed_calls[i].patches[j][1].uri :
                    j \in 1..Len(glyph_keyed_calls[i].patches)} :
                        i \in 1..Len(glyph_keyed_calls)}

\* The group's first invalidating patch is Applied when the call is entered.
FirstInvalidatingApplied ==
    /\ invalidating_patch_iter(patches) # <<>>
    /\ IsApplied(old_patch_data, invalidating_patch_iter(patches)[1].uri)

\* C23: when the group's first invalidating patch is Applied on entry, the
\* call does not give it to an applier and takes the no-invalidation step in
\* the same call: with every no-invalidation URI present and one of them
\* Pending, the glyph keyed applier is given exactly the Pending ones and,
\* when it succeeds, the call returns the new font with all of them Applied;
\* the only errors are those of that step.  In no call is a URI that is
\* Applied on entry given to the table keyed or the glyph keyed applier.
C23_AppliedInvalidatingFallsThrough ==
    Called =>
        /\ \A u \in UrisGivenToAppliers : IsPending(old_patch_data, u)
        /\ FirstInvalidatingApplied =>
              LET no_inv == Range(NoInvalidationUris)
                  pending == {u \in no_inv : IsPending(old_patch_data, u)}
              IN  /\ table_keyed_calls = <<>>
                  /\ (\E u \in no_inv : IsMissing(old_patch_data, u)) =>
                        result = "MissingPatches"
                  /\ ((\A u \in no_inv : ~IsMissing(old_patch_data, u)) /\ pending = {}) =>
                        result = "EmptyPatchList"
                  /\ ((\A u \in no_inv : ~IsMissing(old_patch_data, u)) /\ pending # {}) =>
                        /\ Len(glyph_keyed_calls) = 1
                        /\ UrisGivenToAppliers = pending
                        /\ glyph_keyed_calls[1].ok =>
                              /\ result = "Ok"
                              /\ \A u \in pending : IsApplied(patch_data, u)

\* The partial patch of the group is Applied on entry and a no-invalidation
\* patch of the other scope is Pending: the glyph keyed applier was given
\* that one and it is Applied now.
C23_Witness ==
    /\ Called
    /\ FirstInvalidatingApplied
    /\ patches[1].kind = "Mixed"
    /\ Len(NoInvalidationUris) = 1
    /\ IsPending(old_patch_data, NoInvalidationUris[1])
    /\ table_keyed_calls = <<>>
    /\ Len(glyph_keyed_calls) = 1
    /\ UrisGivenToAppliers = {NoInvalidationUris[1]}
    /\ result = "Ok"
    /\ IsApplied(patch_data, NoInvalidationUris[1])

\* No URI of the group is absent from the status map and one is Pending when
\* the call is entered, and no applier that is called fails.
GroupReadyWithPending ==
    /\ \A u \in Range(uris(patches)) : ~IsMissing(old_patch_data, u)
    /\ \E u \in Range(uris(patches)) : IsPending(old_patch_data, u)
    /\ ~ApplierFailed

\* C28 as stated: in such a call apply_next_patches returns the new font and
\* at least one URI of the group goes from Pending to Applied; so
\* EmptyPatchList is returned only when no URI of the group is Pending.
C28_Progress ==
    Called =>
        /\ GroupReadyWithPending =>
              /\ result = "Ok"
              /\ \E u \in Range(uris(patches)) :
                    IsPending(old_patch_data, u) /\ IsApplied(patch_data, u)
        /\ result = "EmptyPatchList" =>
              \A u \in Range(uris(patches)) : ~IsPending(old_patch_data, u)

\* C28, what the call does: it makes progress when the first invalidating
\* patch or, that one being absent or Applied, a no-invalidation patch is
\* Pending; a Pending second partial patch behind an Applied first one is
\* not looked at.
C28_ProgressOfTheStepTaken ==
    (Called /\ GroupReadyWithPending) =>
        LET inv == invalidating_patch_iter(patches)
            stuck == /\ Len(inv) = 2
                     /\ IsApplied(old_patch_data, inv[1].uri)
                     /\ IsPending(old_patch_data, inv[2].uri)
        IN  IF stuck
            THEN result = "EmptyPatchList" /\ patch_data = old_patch_data
            ELSE /\ result = "Ok"
                 /\ \E u \in Range(uris(patches)) :
                       IsPending(old_patch_data, u) /\ IsApplied(patch_data, u)

\* The group holds two partial patches, the IFT one Applied and the IFTX one
\* Pending on entry: the call returned EmptyPatchList and changed nothing.
C28_Witness ==
    /\ Called
    /\ Len(invalidating_patch_iter(patches)) = 2
    /\ IsApplied(old_patch_data, patches[1].ift.patch.uri)
    /\ IsPending(old_patch_data, patches[1].iftx.patch.uri)
    /\ result = "EmptyPatchList"
    /\ NoApplierCalled
    /\ IsPending(patch_data, patches[1].iftx.patch.uri)

\* The entry indices the glyph map pass alone collects from a table for the
\* codepoints of the call.
GlyphMapPass(map) ==
    intersect_format1_glyph_map(ift_font, map, subset_codepoints,
        [result |-> Ok(<<>>), entries |-> {}, work |-> <<>>])

\* The codepoints of the subset definition that the character map gives a
\* glyph id.
MappedCodepoints == {cp \in subset_codepoints : ift_font.charmap[cp] # None}

\* e(cp) of a mapped codepoint: 0 below first_mapped_glyph, otherwise the
\* element of the entry index array at (glyph id - first_mapped_glyph).
EntryIndexOf(map, cp) ==
    LET gid == ift_font.charmap[cp][1]
        first_gid == map.glyph_map.value.first_mapped_glyph
    IN  IF gid < first_gid THEN 0
        ELSE map.glyph_map.value.entry_index[gid - first_gid + 1]

\* C24: when the intersection succeeds, the glyph map pass of a format 1
\* table contributes exactly the entry indices e(cp) of the mapped codepoints
\* of the subset definition that do not exceed max_glyph_map_entry_index; a
\* codepoint without a glyph is looked up, contributes nothing and is no
\* error; the contributed indices that are above zero and not applied are
\* emitted.
C24_GlyphMapEntries ==
    (Intersected /\ intersect_result = "Ok") =>
        \A map \in Tables :
            LET expected ==
                    {index \in EntryIndices :
                        \E cp \in MappedCodepoints :
                            /\ index = EntryIndexOf(map, cp)
                            /\ index <= map.max_glyph_map_entry_index}
            IN  /\ map.format = 1
                /\ GlyphMapPass(map).result.ok
                /\ GlyphMapPass(map).entries = expected
                /\ \A cp \in subset_codepoints :
                      \E i \in WorkFor(map) : work[i] = CharmapLookup(map.table, cp)
                /\ {index \in expected : index > 0 /\ index \notin map.applied_entries}
                      \subseteq EmittedFor(map)

\* A successful call with the three codepoints on a table whose first mapped
\* glyph is glyph 1: codepoint 1 (glyph 0) gives entry 0, codepoint 2
\* (glyph 1) gives the first element of the array, which is emitted, and
\* codepoint 3 has no glyph.
C24_Witness ==
    /\ Intersected
    /\ intersect_result = "Ok"
    /\ subset_codepoints = Codepoints
    /\ ift_font.ift # None
    /\ LET map == ift_font.ift[1]
       IN  /\ map.glyph_map.ok
           /\ map.glyph_map.value.first_mapped_glyph = 1
           /\ EntryIndexOf(map, 2) > 0
           /\ GlyphMapPass(map).entries = {0, EntryIndexOf(map, 2)}
           /\ EmittedFor(map) = {EntryIndexOf(map, 2)}

\* The tables whose feature map can be read, and the feature records of one.
FeatureTables ==
    {map \in Tables : map.feature_map # None /\ map.feature_map[1].ok}
RecordsOf(map) == map.feature_map[1].value.feature_records

\* The decode events of a table in the work of the call.
Decoded(map) == {i \in WorkFor(map) : work[i].op = "decode"}

\* The feature map pass alone on a table, for the tags of the call.
FeatureMapPass(map) ==
    intersect_format1_feature_map(map, subset_features, overflow_checks,
        [result |-> Ok(<<>>), entries |-> {}, work |-> <<>>])

\* The positions of the feature records that are neither duplicates nor out
\* of order: the tag is above the tag of every readable record before.
InOrder(records) ==
    {r \in 1..Len(records) :
        records[r].ok =>
            \A q \in 1..(r - 1) :
                records[q].ok => records[q].value.feature_tag < records[r].value.feature_tag}

\* The table without its duplicate and out of order feature records.
WithoutDisorder(map) ==
    LET records == RecordsOf(map)
        kept == KeysAscending(InOrder(records))
    IN  [map EXCEPT !.feature_map =
            Some(Ok([map.feature_map[1].value EXCEPT !.feature_records =
                        [n \in 1..Len(kept) |-> records[kept[n]]]]))]

\* C25: in the merge walk, over any feature records (sorted or not, with or
\* without duplicates), a record is decoded only when its tag is a requested
\* tag; the records decoded follow each other in table order with strictly
\* increasing tags and each is decoded once, its mappings in order, so a
\* duplicate or out of order record is never decoded; and the duplicates and
\* the disorder produce no error: the pass ends as it does on the table
\* without them.
C25_MergeWalk ==
    Intersected =>
        \A map \in FeatureTables :
            /\ \A i \in Decoded(map) :
                  /\ work[i].record \in InOrder(RecordsOf(map))
                  /\ RecordsOf(map)[work[i].record].value.feature_tag \in subset_features
                  /\ \A j \in Decoded(map) :
                        i < j =>
                            \/ /\ work[i].record = work[j].record
                               /\ work[i].k < work[j].k
                            \/ /\ work[i].record < work[j].record
                               /\ RecordsOf(map)[work[i].record].value.feature_tag
                                     < RecordsOf(map)[work[j].record].value.feature_tag
            /\ FeatureMapPass(map).result = FeatureMapPass(WithoutDisorder(map)).result
            /\ FeatureMapPass(map).entries = FeatureMapPass(WithoutDisorder(map)).entries

\* Both tags are requested and the second feature record repeats the tag of
\* the first or has a smaller one: the first record was decoded, the second,
\* which has a mapping, was not, and the call succeeded.
C25_Witness ==
    /\ Intersected
    /\ intersect_result = "Ok"
    /\ subset_features = Tags
    /\ ift_font.ift # None
    /\ ift_font.ift[1] \in FeatureTables
    /\ LET map == ift_font.ift[1]
           records == RecordsOf(map)
       IN  /\ Len(records) = 2
           /\ records[1].ok /\ records[2].ok
           /\ records[2].value.feature_tag <= records[1].value.feature_tag
           /\ records[2].value.entry_map_count > 0
           /\ {work[i].record : i \in Decoded(map)} = {1}

\* The mapping a decode event of a table read from the entry map data.
MappingOf(map, i) == map.feature_map[1].value.entry_map_data[work[i].index + 1]

\* C26 as stated: every entry index the feature map pass adds comes from a
\* decoded mapping with first <= last, first and last not above
\* max_glyph_map_entry_index, and is above max_glyph_map_entry_index and not
\* above max_entry_index.
C26_AddedEntriesFromValidMappings ==
    Intersected =>
        \A map \in FeatureTables :
            \A entry \in FeatureMapPass(map).entries :
                \E i \in Decoded(map) :
                    LET first == MappingOf(map, i).first_entry_index
                        last == MappingOf(map, i).last_entry_index
                    IN  /\ entry = first + work[i].k
                        /\ first <= last
                        /\ first <= map.max_glyph_map_entry_index
                        /\ last <= map.max_glyph_map_entry_index
                        /\ entry > map.max_glyph_map_entry_index
                        /\ entry <= map.max_entry_index

\* C26, what the pass does: the conditions on first and on the entry index
\* hold for every index added, the mapping's last index is not read; every
\* decoded mapping that passes this test on a successful walk adds its index.
C26_AddedEntriesCheckedOnFirst ==
    Intersected =>
        \A map \in FeatureTables :
            /\ \A entry \in FeatureMapPass(map).entries :
                  \E i \in Decoded(map) :
                      LET first == MappingOf(map, i).first_entry_index
                      IN  /\ entry = first + work[i].k
                          /\ first <= map.max_glyph_map_entry_index
                          /\ entry > map.max_glyph_map_entry_index
                          /\ entry <= map.max_entry_index
            /\ \A i \in Decoded(map) :
                  LET first == MappingOf(map, i).first_entry_index
                      entry == first + work[i].k
                  IN  (/\ first <= map.max_glyph_map_entry_index
                       /\ entry > map.max_glyph_map_entry_index
                       /\ entry <= map.max_entry_index)
                          => entry \in FeatureMapPass(map).entries

\* The call succeeded and the feature map pass added an entry index from a
\* mapping whose last index is below its first.
C26_Witness ==
    /\ Intersected
    /\ intersect_result = "Ok"
    /\ \E map \in FeatureTables :
          \E i \in Decoded(map) :
              /\ MappingOf(map, i).last_entry_index < MappingOf(map, i).first_entry_index
              /\ MappingOf(map, i).first_entry_index + work[i].k \in FeatureMapPass(map).entries
              /\ \A j \in Decoded(map) :
                    MappingOf(map, j).first_entry_index + work[j].k
                        = MappingOf(map, i).first_entry_index + work[i].k => j = i

\* The sum of entry_map_count over the feature records before position r.
RECURSIVE PrecedingEntryMapCount(_, _)
PrecedingEntryMapCount(records, r) ==
    IF r <= 1 THEN 0
    ELSE PrecedingEntryMapCount(records, r - 1) + records[r - 1].value.entry_map_count

\* C27 as stated: the k-th mapping decoded for a feature record is read from
\* the entry map array at the index (sum of entry_map_count over the records
\* before it in the table) + k, whatever the requested tags are.
C27_DecodeIndexIsPrefixSum ==
    Intersected =>
        \A map \in FeatureTables :
            \A i \in Decoded(map) :
                work[i].index =
                    PrecedingEntryMapCount(RecordsOf(map), work[i].record) + work[i].k

\* C27, what the walk does when only the tag of the first record is requested
\* or the table has one record whose tag is the smallest requested tag: the
\* index is k.
C27_FirstRecordFirstTag ==
    Intersected =>
        \A map \in FeatureTables :
            \A i \in Decoded(map) :
                (/\ work[i].record = 1
                 /\ \A tag \in subset_features :
                       tag >= RecordsOf(map)[1].value.feature_tag)
                    => work[i].index = work[i].k

\* Only tag 2 is requested and the table has a record with a mapping for
\* tag 1 before the record for tag 2: the call succeeded and the mapping of
\* the second record was read from the first element of the array.
C27_Witness ==
    /\ Intersected
    /\ intersect_result = "Ok"
    /\ subset_features = {2}
    /\ \E map \in FeatureTables :
          /\ Len(RecordsOf(map)) = 2
          /\ RecordsOf(map)[1].value = [feature_tag |-> 1, entry_map_count |-> 1]
          /\ RecordsOf(map)[2].value.feature_tag = 2
          /\ \E i \in Decoded(map) :
                work[i] = Decode(map.table, 2, 0, 0)


(***************************************************************************)
(* Properties of the feature map walk.                                     *)
(***************************************************************************)
WalkReturned == feature_walk.at = "returned"

\* The walk, step by step, ends as intersect_format1_feature_map does and
\* with the same entries.
WalkAgreesWithFeatureMapPass ==
    WalkReturned =>
        LET pass == FeatureMapPass(ift_font.ift[1])
        IN  /\ feature_walk.entries = pass.entries
            /\ feature_walk.result = (IF pass.result.ok THEN "Ok" ELSE pass.result.error)

\* One iteration of the `loop` advances the tag cursor, advances the record
\* cursor, enters the `for` on a matched record, or leaves the function; the
\* iteration after the `for` advances the tag cursor.
IterationAdvances ==
    feature_walk.at = "loop" =>
        /\ \/ /\ feature_walk'.at = "loop"
              /\ feature_walk'.next_tag = feature_walk.next_tag + 1
              /\ feature_walk'.next_record = feature_walk.next_record
           \/ /\ feature_walk'.at = "loop"
              /\ feature_walk'.next_record = feature_walk.next_record + 1
              /\ feature_walk'.next_tag = feature_walk.next_tag
           \/ /\ feature_walk'.at = "for"
              /\ feature_walk'.i = 0
              /\ feature_walk'.next_tag = feature_walk.next_tag
              /\ feature_walk'.next_record = feature_walk.next_record
           \/ feature_walk'.at = "returned"
        /\ feature_walk.last = "for ended" =>
              /\ feature_walk'.at = "loop"
              /\ feature_walk'.next_tag = feature_walk.next_tag + 1

\* One iteration of the `for` advances i, ends the `for` when i has reached
\* entry_count, or leaves the function; the cursors are not moved.
DecodeAdvances ==
    feature_walk.at = "for" =>
        /\ \/ /\ feature_walk'.at = "for"
              /\ feature_walk'.i = feature_walk.i + 1
              /\ feature_walk'.i <= feature_walk.entry_count
           \/ /\ feature_walk'.at = "loop"
              /\ feature_walk.i = feature_walk.entry_count
           \/ feature_walk'.at = "returned"
        /\ feature_walk'.next_tag = feature_walk.next_tag
        /\ feature_walk'.next_record = feature_walk.next_record

\* C29: the merge walk of the feature map pass ends, whatever the requested
\* tags and the feature records are: every iteration of the loop advances
\* the tag cursor, advances the record cursor, or decodes the mappings of a
\* matched record and is followed by an iteration that advances the tag
\* cursor; the cursors never go back; so the function returns.
C29_WalkTerminates ==
    /\ <>WalkReturned
    /\ [][IterationAdvances /\ DecodeAdvances]_vars

\* The walk has returned Ok after it decoded the mappings of a matched
\* record, advanced the tag cursor to the end of two requested tags and
\* advanced the record cursor.
C29_Witness ==
    /\ WalkReturned
    /\ feature_walk.result = "Ok"
    /\ feature_walk.last = "break"
    /\ subset_features = Tags
    /\ feature_walk.next_tag = Cardinality(Tags) + 1
    /\ feature_walk.next_record = 2
    /\ feature_walk.entry_count = 2
    /\ feature_walk.i = 2

\* C30 as stated: on a table that passes the top level validation no u16
\* computation of the feature map pass overflows: the running sum of
\* entry_map_count, the byte offset into the entry map data and
\* first_entry_index + i stay within 0..65535.
C30_NoU16Overflow ==
    TopLevelValidation(ift_font, ift_font.ift[1]).ok =>
        \A value \in feature_walk.arithmetic : value \in 0..(U16Range - 1)

\* C30, what holds: a record is counted at most once for each requested
\* tag, so the computations stay within 0..65535 when twice the largest
\* entry_map_count times the number of records times the number of
\* requested tags does.
C30_NoOverflowOnSmallCounts ==
    LET records == ift_font.ift[1].feature_map[1].value.feature_records
        counts == {records[r].value.entry_map_count :
                      r \in {x \in 1..Len(records) : records[x].ok}}
    IN  (/\ ift_font.ift[1].feature_map # None
         /\ ift_font.ift[1].feature_map[1].ok
         /\ \A count \in counts :
               count * Cardinality(subset_features) * Len(records) * 2 < U16Range) =>
            \A value \in feature_walk.arithmetic : value \in 0..(U16Range - 1)

\* A valid table with one feature record for tag 2 whose entry_map_count is
\* 32768, both tags requested, in a build without overflow checks: the sum
\* of the second counting was 65536 and the walk went on with the `for`.
C30_Witness ==
    /\ TopLevelValidation(ift_font, ift_font.ift[1]).ok
    /\ ~overflow_checks
    /\ subset_features = Tags
    /\ feature_walk.at = "for"
    /\ feature_walk.entry_count = 32768
    /\ feature_walk.arithmetic = {U16Range}
    /\ feature_walk.cumulative_entry_map_count = 0
    /\ feature_walk.tot_entry_count = 32768

====
